---- MODULE Spec2Model ----
(***************************************************************************)
(* URL shortener backend: the request-handling path of the Express app     *)
(* (auth gate, link service, DAO, auth service, redirect) over the two     *)
(* MongoDB collections `users` and `urlSchema`.                            *)
(*                                                                         *)
(* Strings that the code trims, lower-cases, measures or matches against a *)
(* regular expression are sequences of one-character strings, so that the  *)
(* conversions are computed and not assumed.                               *)
(*                                                                         *)
(* One action is one database operation of a request together with the    *)
(* synchronous code that runs before and after it: between two awaits a    *)
(* Node.js handler cannot be interleaved with another one.                 *)
(***************************************************************************)
EXTENDS Integers, Sequences, FiniteSets, Bags, TLC

(***************************************************************************)
(* Bounds of the model.                                                    *)
(***************************************************************************)
MaxAuthReqs == 3    \* register / login requests received in one behaviour
MaxLinkReqs == 3    \* requests to the link routes received in one behaviour
MaxGatedReqs == 1   \* requests to a protected route next to the auth requests
MaxGateReqs == 2    \* requests to the protected routes when the gate is examined
MaxNow == 8         \* last day the clock reaches
MaxTokenReqs == 2   \* requests to the protected routes when tokens are examined
MaxServiceCalls == 3 \* direct calls of the link service functions
MaxListReqs == 3    \* requests received when the lists are examined
MaxPureCalls == 1   \* calls of the pure functions in one behaviour
MaxConns == 2       \* connections open at the same time
MaxSignals == 2     \* signals the process receives
MaxInvocations == 1 \* invocations of the client's retry wrapper
MaxSubmissions == 1 \* submissions of the client's URL form
MaxSessionReqs == 3 \* requests the client sends while its session is examined
MaxRouteReqs == 3   \* requests received when the routes are examined
MaxRetryCalls == 2  \* calls of the two create services when their loop is examined
MaxFaultReqs == 3   \* requests received while the database server comes and goes

(***************************************************************************)
(* Text helpers (String.prototype.trim, toLowerCase, RegExp.test).         *)
(***************************************************************************)
UpperCase == <<"A","B","C","D","E","F","G","H","I","J","K","L","M",
               "N","O","P","Q","R","S","T","U","V","W","X","Y","Z">>
LowerCase == <<"a","b","c","d","e","f","g","h","i","j","k","l","m",
               "n","o","p","q","r","s","t","u","v","w","x","y","z">>
Digits == {"0","1","2","3","4","5","6","7","8","9"}
Letters == {UpperCase[i] : i \in 1..26} \cup {LowerCase[i] : i \in 1..26}

IsSpace(c) == c = " "

RECURSIVE TrimStart(_)
TrimStart(s) == IF s # <<>> /\ IsSpace(Head(s)) THEN TrimStart(Tail(s)) ELSE s

RECURSIVE TrimEnd(_)
TrimEnd(s) ==
    IF s # <<>> /\ IsSpace(s[Len(s)]) THEN TrimEnd(SubSeq(s, 1, Len(s) - 1)) ELSE s

Trim(s) == TrimEnd(TrimStart(s))

LowerChar(c) ==
    IF \E i \in 1..26 : UpperCase[i] = c
    THEN LowerCase[CHOOSE i \in 1..26 : UpperCase[i] = c]
    ELSE c

ToLowerCase(s) == [i \in 1..Len(s) |-> LowerChar(s[i])]

\* /^[a-zA-Z0-9-_]+$/
customUrlRegex(s) ==
    /\ Len(s) >= 1
    /\ \A i \in 1..Len(s) : s[i] \in Letters \cup Digits \cup {"-", "_"}

\* /^[^\s@]+@[^\s@]+\.[^\s@]+$/
emailRegex(s) ==
    \E at \in 2..Len(s), dot \in 3..Len(s) :
        /\ s[at] = "@"
        /\ s[dot] = "."
        /\ at + 1 < dot
        /\ dot < Len(s)
        /\ \A i \in 1..Len(s) : i # at => (~IsSpace(s[i]) /\ s[i] # "@")

\* new URL(url) succeeds: after stripping surrounding white space the text
\* starts with a scheme (a letter, then letters or digits) followed by ":"
\* and something after it.
ParsesAsUrl(s) ==
    LET t == Trim(s) IN
    \E colon \in 2..Len(t) :
        /\ t[colon] = ":"
        /\ colon < Len(t)
        /\ t[1] \in Letters
        /\ \A i \in 1..(colon - 1) : t[i] \in Letters \cup Digits
        /\ \A i \in 1..Len(t) : ~IsSpace(t[i])

(***************************************************************************)
(* Input domains: what clients send.                                       *)
(***************************************************************************)
Str(c, n) == [i \in 1..n |-> c]

Url1 == <<"h","t","t","p",":","/","/","a",".","i","o","/","x">>
Url2 == <<"h","t","t","p",":","/","/","b",".","i","o">>
BadUrl == <<"a",".","i","o">>
ValidUrls == {Url1, Url2}
Urls == ValidUrls \cup {BadUrl}

IdA == Str("a", 7)
IdB == Str("b", 7)
\* the identifiers nanoid can return in a behaviour of the model
IdPool == {IdA, IdB}

SlugMy1 == <<"m","y","_","1">>
SlugApi == <<"A","p","i">>
SlugHealth == <<"h","e","a","l","t","h">>
\* a 7-character slug is drawn from the same alphabet as a generated code
FreeSlugs == {IdA, SlugMy1}
Slugs == FreeSlugs \cup {SlugApi}

\* path segments of GET /:id
Paths == IdPool \cup {SlugMy1}

EmailLower == <<"a","@","b",".","c">>
EmailUpper == <<" ","A","@","B",".","c">>
EmailOther == <<"z","@","b",".","c">>
EmailNew == <<"n","@","b",".","c">>
Emails == {EmailLower, EmailUpper, EmailOther}

Passwords == {"secret1", "hunter22"}
NameAl == <<"A","l">>
Names == {NameAl}

(***************************************************************************)
(* Errors (errorHandler.js) and the errors the MongoDB driver raises.      *)
(***************************************************************************)
NoError == [cls |-> "none"]

AppError(m, sc) == [cls |-> "AppError", statusCode |-> sc, message |-> m, code |-> 0]
NotFoundError(m) == [cls |-> "NotFoundError", statusCode |-> 404, message |-> m, code |-> 0]
ConflictError(m) == [cls |-> "ConflictError", statusCode |-> 409, message |-> m, code |-> 0]
BadRequestError(m) == [cls |-> "BadRequestError", statusCode |-> 400, message |-> m, code |-> 0]
UnauthorizedError(m) == [cls |-> "UnauthorizedError", statusCode |-> 401, message |-> m, code |-> 0]
\* a plain Error: no statusCode, no code
Error(m) == [cls |-> "Error", statusCode |-> 0, message |-> m, code |-> 0]

IsAppError(e) ==
    e.cls \in {"AppError", "NotFoundError", "ConflictError", "BadRequestError",
               "UnauthorizedError"}

\* E11000: the unique index on `field` rejected the insert
MongoDuplicateKey(field) ==
    [cls |-> "MongoServerError", statusCode |-> 0,
     message |-> <<"E11000", "duplicate", "key", "error">>, code |-> 11000, keyPattern |-> field]
\* the server cannot be reached
MongoNetworkError ==
    [cls |-> "MongoNetworkError", statusCode |-> 0,
     message |-> <<"connection", "timed", "out">>, code |-> 0]

\* a handler that answers 500 whatever the error
errorHandlerAlways500(err) ==
    [status |-> 500, error |-> "",
     message |-> IF err.message # <<>> THEN err.message ELSE <<"Internal", "Server", "Error">>]

\* the global error handler: status and message of the JSON envelope
errorHandler(err) ==
    IF IsAppError(err)
    THEN [status |-> err.statusCode, error |-> "", message |-> err.message]
    ELSE [status |-> 500, error |-> "",
          message |-> IF err.message # <<>> THEN err.message ELSE <<"Internal", "Server", "Error">>]

(***************************************************************************)
(* ObjectIds: 24 hexadecimal characters as a string, a number as a value.  *)
(***************************************************************************)
HexDigits == <<"0","1","2","3","4","5","6","7","8","9","a","b","c","d","e","f">>

ObjectIdToString(n) ==
    [i \in 1..24 |->
        IF i = 24 THEN HexDigits[(n % 16) + 1]
        ELSE IF i = 23 THEN HexDigits[((n \div 16) % 16) + 1]
        ELSE "0"]

IsObjectIdString(s) ==
    /\ Len(s) = 24
    /\ \A i \in 1..Len(s) : \E d \in 1..16 : HexDigits[d] = s[i]

HexVal(c) == CHOOSE d \in 0..15 : HexDigits[d + 1] = c

\* mongoose casts a 24-hex string to an ObjectId
CastObjectId(s) == 16 * HexVal(s[23]) + HexVal(s[24])

(***************************************************************************)
(* Messages are sequences of words; String.prototype.includes is a search  *)
(* for a contiguous run of words (case-sensitive, as in the code).         *)
(***************************************************************************)
Includes(m, sub) ==
    \E i \in 0..(Len(m) - Len(sub)) : SubSeq(m, i + 1, i + Len(sub)) = sub

(***************************************************************************)
(* State.                                                                  *)
(***************************************************************************)
VARIABLES
    users,   \* the users collection, in insertion order
    links,   \* the urlSchema collection (short links), in insertion order
    req,     \* the requests received so far (a bag), each with its position
             \* in its handler and, once answered, its response
    now,     \* the clock, in days
    oid,     \* number of documents inserted so far: the next ObjectId
    mongoUp, \* the MongoDB server answers
    server,  \* the backend process: its HTTP server, its database connection,
             \* its shutdown callbacks and its exit code
    client,  \* the browser: local storage and the state of the home page
    retry    \* the invocations of the client's retry wrapper

vars == <<users, links, req, now, oid, mongoUp, server, client, retry>>

\* the state outside the request-handling path
outside == <<server, client, retry>>

Null == [null |-> TRUE]
\* null or undefined where a string is expected: not a sequence of characters
NullString == <<"null">>
Truthy(s) == s # NullString /\ s # <<>>
\* a truthy value that is not a string, such as the number 123
NotAString == <<"number">>
\* typeof s === 'string'
IsString(s) == s # NullString /\ s # NotAString
\* the value of a path that mongoose could not cast to its schema type
CastFailed == [castError |-> TRUE]
NoRes == [status |-> 0]
NoHeader == [scheme |-> "none"]
Bearer(t) == [scheme |-> "Bearer", token |-> t]
\* no Authorization header, and a Cookie header "token=<t>"
Cookie(t) == [scheme |-> "Cookie", token |-> t]

Range(f) == {f[i] : i \in DOMAIN f}

(***************************************************************************)
(* JWT (helper.js).                                                        *)
(***************************************************************************)
expiresIn == 7
JWT_SECRET == "JWT_SECRET"
\* a token signed with expiresIn "1d"
signTokenOneDay(payload) ==
    [id |-> ObjectIdToString(payload.id),
     email |-> payload.email, name |-> payload.name,
     iat |-> now, exp |-> now + 1,
     iss |-> "url-shortener-app", aud |-> "url-shortener-users",
     key |-> JWT_SECRET]

signToken(payload) ==
    [id |-> ObjectIdToString(payload.id),   \* JSON form of the ObjectId
     email |-> payload.email, name |-> payload.name,
     iat |-> now, exp |-> now + expiresIn,
     iss |-> "url-shortener-app", aud |-> "url-shortener-users",
     key |-> JWT_SECRET]

\* a verification that accepts every token
verifyTokenUnchecked(token) == [error |-> NoError, decoded |-> token]

\* jwt.verify with the issuer and audience options, and verifyToken's catch
verifyToken(token) ==
    IF token.key # JWT_SECRET
    THEN [error |-> Error(<<"Invalid", "token", "format">>), decoded |-> Null]
    ELSE IF now >= token.exp
    THEN [error |-> Error(<<"Token", "has", "expired">>), decoded |-> Null]
    ELSE IF token.iss # "url-shortener-app" \/ token.aud # "url-shortener-users"
    THEN [error |-> Error(<<"Invalid", "token", "format">>), decoded |-> Null]
    ELSE [error |-> NoError, decoded |-> token]

(***************************************************************************)
(* bcrypt: the hash keeps the work factor and matches only its password.   *)
(***************************************************************************)
saltRounds == 12
bcryptHash(password, rounds) == [alg |-> "bcrypt", rounds |-> rounds, of |-> password]
bcryptCompare(password, hash) == hash.of = password

(***************************************************************************)
(* MongoDB operations on the two collections.  While mongoUp is FALSE the  *)
(* server does not answer and every operation fails with a network error.  *)
(***************************************************************************)\* a collection whose email field carries no unique index
UserEmailNotIndexed(email) == FALSE

\* unique index on users.email (user.model.js)
UserEmailTaken(email) == \E i \in 1..Len(users) : users[i].email = email

\* a collection whose short_url field carries no unique index
ShortUrlNotIndexed(short_url) == FALSE

\* unique index on urlSchema.short_url (shorturl.model.js)
ShortUrlTaken(short_url) == \E i \in 1..Len(links) : links[i].short_url = short_url

\* User.findOne({email})
UserFindOne(email) ==
    IF \E i \in 1..Len(users) : users[i].email = email
    THEN users[CHOOSE i \in 1..Len(users) :
                 /\ users[i].email = email
                 /\ \A j \in 1..(i - 1) : users[j].email # email]
    ELSE Null

\* ShortUrl.findOne({short_url})
LinkFindOne(short_url) ==
    IF \E i \in 1..Len(links) : links[i].short_url = short_url
    THEN links[CHOOSE i \in 1..Len(links) :
                 /\ links[i].short_url = short_url
                 /\ \A j \in 1..(i - 1) : links[j].short_url # short_url]
    ELSE Null

\* document.save() of a new short link: schema validation, then the insert
LinkSave(doc) ==
    IF doc.full_url = <<>> \/ doc.short_url = <<>> \/ doc.user = CastFailed
    THEN [error |-> [cls |-> "ValidationError", statusCode |-> 0,
                     message |-> <<"Path", "is", "required">>, code |-> 0],
          links |-> links]
    ELSE IF ~mongoUp THEN [error |-> MongoNetworkError, links |-> links]
    ELSE IF ShortUrlTaken(doc.short_url)
    THEN [error |-> MongoDuplicateKey("short_url"), links |-> links]
    ELSE [error |-> NoError, links |-> Append(links, doc)]

\* document.save() of a new user
UserSave(doc) ==
    IF ~mongoUp THEN [error |-> MongoNetworkError, users |-> users]
    ELSE IF UserEmailTaken(doc.email)
    THEN [error |-> MongoDuplicateKey("email"), users |-> users]
    ELSE [error |-> NoError, users |-> Append(users, doc)]

\* {$set: {clicks: 1}} in place of the $inc
IncClicksSet(clicks) == 1

\* {$inc: {clicks: 2}}
IncClicksTwice(clicks) == clicks + 2

\* the $inc of findOneAndUpdate
IncClicks(clicks) == clicks + 1
\* the same update with {upsert: true}: a missing document is created
LinkFindOneAndUpsert(short_url) ==
    IF \E i \in 1..Len(links) : links[i].short_url = short_url
    THEN LET i == CHOOSE k \in 1..Len(links) :
                    /\ links[k].short_url = short_url
                    /\ \A j \in 1..(k - 1) : links[j].short_url # short_url
             upd == [links[i] EXCEPT !.clicks = IncClicks(@)]
         IN [url |-> upd, links |-> [links EXCEPT ![i] = upd]]
    ELSE [url |-> Null,
          links |-> Append(links, [_id |-> oid, full_url |-> <<>>, short_url |-> short_url,
                                   clicks |-> 1, user |-> Null])]

\* findOneAndUpdate({short_url}, {$inc: {clicks: 1}}, {new: true}): one atomic
\* operation on the first matching document
LinkFindOneAndUpdate(short_url) ==
    IF \E i \in 1..Len(links) : links[i].short_url = short_url
    THEN LET i == CHOOSE k \in 1..Len(links) :
                    /\ links[k].short_url = short_url
                    /\ \A j \in 1..(k - 1) : links[j].short_url # short_url
             upd == [links[i] EXCEPT !.clicks = IncClicks(@)]
         IN [url |-> upd, links |-> [links EXCEPT ![i] = upd]]
    ELSE [url |-> Null, links |-> links]

(***************************************************************************)
(* DAO layer (shortUrl.dao.js, user.dao.js).                               *)
(***************************************************************************)
validateSaveInputs(shortUrl, longUrl, userId) ==
    IF ~Truthy(shortUrl) \/ ~IsString(shortUrl) \/ Trim(shortUrl) = <<>>
    THEN BadRequestError(<<"Short", "URL", "is", "required", "and", "must", "be", "a", "non-empty", "string">>)
    ELSE IF ~Truthy(longUrl) \/ ~IsString(longUrl) \/ Trim(longUrl) = <<>>
    THEN BadRequestError(<<"Long", "URL", "is", "required", "and", "must", "be", "a", "non-empty", "string">>)
    ELSE IF userId # NullString /\ (~IsString(userId) \/ Trim(userId) = <<>>)
    THEN BadRequestError(<<"User", "ID", "must", "be", "a", "non-empty", "string", "when", "provided">>)
    ELSE NoError

\* a catch block that does not recognise the duplicate-key code
saveShortUrlCatchGeneric(error) ==
    Error(<<"Failed", "to", "save", "short", "URL:">> \o error.message)

\* the catch block of saveShortUrl
saveShortUrlCatch(error) ==
    IF error.code = 11000
    THEN IF error.keyPattern = "short_url"
         THEN ConflictError(<<"Short", "URL", "already", "exists">>)
         ELSE ConflictError(<<"Duplicate", "entry", "detected">>)
    ELSE IF error.cls = "ValidationError"
    THEN BadRequestError(<<"Validation", "failed:">> \o error.message)
    ELSE IF error.cls = "CastError"
    THEN BadRequestError(<<"Invalid", "data", "format", "provided">>)
    ELSE IF error.cls \in {"BadRequestError", "ConflictError"}
    THEN error
    ELSE Error(<<"Database", "operation", "failed:">> \o error.message)

\* saveShortUrl(shortUrl, longUrl, userId): the error thrown (NoError when the
\* document was saved) and the collection afterwards.  _id is the ObjectId
\* of the new document.
saveShortUrl(shortUrl, longUrl, userId, _id) ==
    LET invalid == validateSaveInputs(shortUrl, longUrl, userId) IN
    IF invalid # NoError
    THEN [error |-> saveShortUrlCatch(invalid), links |-> links]
    ELSE LET newUrl == [_id |-> _id,
                        full_url |-> Trim(longUrl),
                        short_url |-> Trim(shortUrl),
                        clicks |-> 0,
                        user |-> IF ~Truthy(userId) THEN Null
                                 ELSE IF IsObjectIdString(Trim(userId))
                                 THEN [oid |-> CastObjectId(Trim(userId))]
                                 ELSE CastFailed]
             saved == LinkSave(newUrl)
         IN IF saved.error = NoError
            THEN saved
            ELSE [error |-> saveShortUrlCatch(saved.error), links |-> links]

\* getShortUrl(shortUrl): the error thrown, the document returned (Null when
\* there is none) and the collection afterwards
getShortUrl(shortUrl) ==
    IF ~Truthy(shortUrl) \/ Trim(shortUrl) = <<>>
    THEN [error |-> BadRequestError(<<"Short", "URL", "is", "required", "and", "must", "be", "a", "non-empty", "string">>),
          url |-> Null, links |-> links]
    ELSE IF ~mongoUp
    THEN [error |-> Error(<<"Database", "query", "failed:">> \o MongoNetworkError.message),
          url |-> Null, links |-> links]
    ELSE LET found == LinkFindOneAndUpdate(Trim(shortUrl)) IN
         IF found.url = Null
         THEN [error |-> NoError, url |-> Null, links |-> found.links]
         ELSE IF found.url.full_url = <<>>
         THEN [error |-> Error(<<"Database", "query", "failed:", "Invalid", "URL", "data", "in", "database">>),
               url |-> Null, links |-> found.links]
         ELSE [error |-> NoError, url |-> found.url, links |-> found.links]

\* findUserByEmail(email): the error thrown and the user found (Null if none)
findUserByEmail(email) ==
    IF ~Truthy(email) \/ Trim(email) = <<>>
    THEN [error |-> BadRequestError(<<"Email", "is", "required", "and", "must", "be", "a", "non-empty", "string">>),
          user |-> Null]
    ELSE IF ~emailRegex(Trim(email))
    THEN [error |-> BadRequestError(<<"Invalid", "email", "format">>), user |-> Null]
    ELSE IF ~mongoUp
    THEN [error |-> Error(<<"Database", "connection", "failed">>), user |-> Null]
    ELSE [error |-> NoError, user |-> UserFindOne(ToLowerCase(Trim(email)))]

(***************************************************************************)
(* Requests and responses.                                                 *)
(***************************************************************************)
NewReq(kind) ==
    [kind |-> kind, pc |-> "start",
     at |-> 0,               \* the day the auth gate saw the request
     authorization |-> NoHeader, url |-> NullString, customUrl |-> NullString,
     id |-> NullString, name |-> NullString, email |-> NullString, password |-> "",
     user |-> Null,          \* req.user, set by the auth gate
     handled |-> FALSE,      \* the route's controller was entered
     found |-> FALSE,        \* login: the lookup by email found a user
     shortUrl |-> NullString,\* the candidate / the code the service returned
     retryCount |-> 0,
     attempts |-> 0,         \* calls of document.save() made for this request
     collisions |-> 0,       \* of which rejected by the unique index
     arg |-> Null,           \* the argument of a direct function call
     res |-> NoRes]

Failure(status, error, message) ==
    [status |-> status, error |-> error, message |-> message, data |-> Null]

Success(status, message, data) ==
    [status |-> status, error |-> "", message |-> message, data |-> data]

\* next(error): the global error handler writes the response
NextError(err) ==
    LET e == errorHandler(err) IN Failure(e.status, e.error, e.message)

Done(rq, res) == [rq EXCEPT !.pc = "done", !.res = res]

\* a request is received / the request rq moves on to become next
Receive(rq) == req' = req (+) SetToBag({rq})
Replace(rq, next) == req' = (req (-) SetToBag({rq})) (+) SetToBag({next})

\* the tokens clients hold: those returned by register and login
IssuedTokens ==
    {rq.res.data.token : rq \in {x \in BagToSet(req) :
        /\ x.kind \in {"register", "login"}
        /\ x.res.status \in {200, 201}}}

Authorizations == {NoHeader} \cup {Bearer(t) : t \in IssuedTokens}

AppUrl == <<"h","t","t","p",":","/","/","l","o","c","a","l","h","o","s","t",
            ":","3","0","0","0","/">>

(***************************************************************************)
(* Authentication gate (auth.middleware.js).                               *)
(***************************************************************************)
\* the catch block of authMiddleware
authMiddlewareCatch(error) ==
    IF Includes(error.message, <<"expired">>)
    THEN Failure(401, "TOKEN_EXPIRED",
                 <<"Your", "session", "has", "expired.", "Please", "log", "in", "again.">>)
    ELSE IF Includes(error.message, <<"invalid">>)
    THEN Failure(401, "INVALID_TOKEN",
                 <<"Invalid", "authentication", "token.", "Please", "log", "in", "again.">>)
    ELSE IF Includes(error.message, <<"malformed">>)
    THEN Failure(401, "MALFORMED_TOKEN",
                 <<"Malformed", "authentication", "token.", "Please", "log", "in", "again.">>)
    ELSE Failure(401, "AUTHENTICATION_FAILED",
                 <<"Authentication", "failed.", "Please", "log", "in", "again.">>)
\* a gate that answers every request as if its token were invalid
authMiddlewareInvalid(authorization) ==
    [res |-> Failure(401, "INVALID_TOKEN",
            <<"Invalid", "authentication", "token.", "Please", "log", "in", "again.">>),
     user |-> Null]

\* req.cookies: app.js installs express.json and express.urlencoded but no
\* cookie parser, so the property is undefined whatever the Cookie header is
reqCookies(authorization) == Null

\* req.headers.authorization || (req.cookies && req.cookies.token), without
\* the "Bearer " prefix
authMiddlewareToken(authorization) ==
    IF authorization.scheme = "Bearer" THEN authorization.token
    ELSE IF reqCookies(authorization) # Null THEN reqCookies(authorization).token
    ELSE Null

\* authMiddleware: the response it sends (NoRes when it calls next()) and
\* the identity it attaches to the request
authMiddleware(authorization) ==
    IF authMiddlewareToken(authorization) = Null
    THEN [res |-> Failure(401, "NO_TOKEN_PROVIDED",
            <<"Authentication", "required.", "Please", "log", "in", "to", "access", "this", "resource.">>),
          user |-> Null]
    ELSE LET verified == verifyToken(authMiddlewareToken(authorization)) IN
         IF verified.error # NoError
         THEN [res |-> authMiddlewareCatch(verified.error), user |-> Null]
         ELSE IF ~Truthy(verified.decoded.id) \/ ~Truthy(verified.decoded.email)
         THEN [res |-> Failure(401, "INVALID_TOKEN",
                 <<"Invalid", "authentication", "token.", "Please", "log", "in", "again.">>),
               user |-> Null]
         ELSE LET decoded == verified.decoded
                  found == findUserByEmail(decoded.email)
              IN IF found.error # NoError
                 THEN [res |-> authMiddlewareCatch(found.error), user |-> Null]
                 ELSE IF found.user = Null
                 THEN [res |-> Failure(401, "USER_NOT_FOUND",
                         <<"User", "account", "not", "found.", "Please", "log", "in", "again.">>),
                       user |-> Null]
                 ELSE [res |-> NoRes,
                       user |-> [id |-> decoded.id, email |-> decoded.email,
                                 name |-> decoded.name,
                                 tokenIat |-> decoded.iat, tokenExp |-> decoded.exp]]

(***************************************************************************)
(* Link service and controllers (ShortUrl.service.js, shortUrl.controller) *)
(***************************************************************************)
maxRetries == 3

validateUrl(url) ==
    IF ~Truthy(url) THEN BadRequestError(<<"URL", "is", "required">>)
    ELSE IF ~ParsesAsUrl(url) THEN BadRequestError(<<"Invalid", "URL", "format">>)
    ELSE NoError

\* a service that leaves every check to the persistence layer
validateServiceInputsNone(url, userId) == NoError

validateServiceInputs(url, userId) ==
    IF ~Truthy(url) THEN BadRequestError(<<"URL", "is", "required">>)
    ELSE IF ~IsString(url) \/ Trim(url) = <<>> THEN BadRequestError(<<"URL", "must", "be", "a", "non-empty", "string">>)
    ELSE IF userId # NullString /\ (~IsString(userId) \/ Trim(userId) = <<>>)
    THEN BadRequestError(<<"User", "ID", "must", "be", "a", "non-empty", "string", "when", "provided">>)
    ELSE NoError

\* a generator that returns one character less than asked for
generateNanoIdShort(length) == {SubSeq(id, 1, length - 1) : id \in IdPool}

\* nanoid(size): the library returns size characters; of its alphabet two
\* letters are kept
nanoid(size) == {Str("a", size), Str("b", size)}

\* a validation without the upper limit
generateNanoIdErrorNoLimit(type, length) ==
    IF length = 0 \/ type # "number" \/ length <= 0
    THEN Error(<<"ID", "generation", "failed:", "Length", "must", "be", "a", "positive", "number">>)
    ELSE NoError

\* the input validation of generateNanoId, rethrown by its catch block; type
\* is typeof length
generateNanoIdError(type, length) ==
    IF length = 0 \/ type # "number" \/ length <= 0
    THEN Error(<<"ID", "generation", "failed:", "Length", "must", "be", "a", "positive", "number">>)
    ELSE IF length > 50
    THEN Error(<<"ID", "generation", "failed:", "Length", "cannot", "exceed", "50", "characters">>)
    ELSE NoError

\* generateNanoId(length) for a number: the identifiers it may return (none
\* when it throws)
generateNanoId(length) ==
    IF generateNanoIdError("number", length) # NoError THEN {}
    ELSE {id \in nanoid(length) : Len(id) = length}

\* createShortUrl up to the first await: the error it passes to next(), if any
createShortUrlEntry(url, user) ==
    IF validateUrl(url) # NoError THEN validateUrl(url)
    ELSE IF ~Truthy(user.id) THEN Error(<<"User", "authentication", "failed">>)
    ELSE validateServiceInputs(url, user.id)

\* POST /api/shortUrl/create: auth gate, then the controller up to the save
PostCreate(authorization, url) ==
    /\ LET gate == authMiddleware(authorization)
           rq0 == [NewReq("create") EXCEPT !.authorization = authorization, !.at = now, !.url = url]
           rq1 == [rq0 EXCEPT !.user = gate.user, !.handled = TRUE]
       IN Receive(
                    IF gate.res # NoRes THEN Done(rq0, gate.res)
                    ELSE IF createShortUrlEntry(url, gate.user) # NoError
                    THEN Done(rq1, NextError(createShortUrlEntry(url, gate.user)))
                    ELSE [rq1 EXCEPT !.pc = "save"])
    /\ UNCHANGED <<outside, users, links, now, oid, mongoUp>>

CreatedData(rq, shortUrl) ==
    [shortUrl |-> AppUrl \o shortUrl, originalUrl |-> rq.url,
     userId |-> rq.user.id, createdBy |-> rq.user.email]

\* a catch block that tries again after any error
RetryCatchAnyError(error, retryCount) ==
    IF retryCount < maxRetries
    THEN [continue |-> TRUE, error |-> NoError]
    ELSE [continue |-> FALSE,
          error |-> ConflictError(<<"Unable", "to", "generate", "unique", "short", "URL", "after", "multiple", "attempts">>)]

\* what the retry loop's catch block does with the error of one attempt:
\* "continue", or the error it throws
RetryCatch(error, retryCount) ==
    IF error.code = 11000 /\ retryCount < maxRetries
    THEN [continue |-> TRUE, error |-> NoError]
    ELSE IF retryCount >= maxRetries
    THEN [continue |-> FALSE,
          error |-> ConflictError(<<"Unable", "to", "generate", "unique", "short", "URL", "after", "multiple", "attempts">>)]
    ELSE [continue |-> FALSE, error |-> error]

\* one iteration of the retry loop of createShortUrlServiceWithUserId, and
\* the controller's response when the loop ends
createShortUrlServiceWithUserId(rq) ==
    /\ rq \in BagToSet(req)
    /\ rq.kind = "create" /\ rq.pc = "save"
    /\ \E shortUrl \in generateNanoId(7) :
        \E sv \in {saveShortUrl(shortUrl, Trim(rq.url), Trim(rq.user.id), oid)} :
          LET collided == mongoUp /\ ShortUrlTaken(shortUrl)
              tried == [rq EXCEPT !.shortUrl = shortUrl,
                                  !.attempts = @ + 1,
                                  !.collisions = IF collided THEN @ + 1 ELSE @]
              retryCount == rq.retryCount + 1
              caught == RetryCatch(sv.error, retryCount)
          IN /\ links' = sv.links
             /\ oid' = IF sv.error = NoError THEN oid + 1 ELSE oid
             /\ Replace(rq,
                    IF sv.error = NoError
                    THEN Done(tried, Success(201, <<"Short", "URL", "created", "successfully">>,
                                             CreatedData(rq, shortUrl)))
                    ELSE IF caught.continue
                    THEN [tried EXCEPT !.retryCount = retryCount]
                    ELSE Done([tried EXCEPT !.retryCount = retryCount],
                              NextError(caught.error)))
    /\ UNCHANGED <<outside, users, now, mongoUp>>

reservedWords == {<<"a","p","i">>, <<"a","d","m","i","n">>, <<"w","w","w">>,
                  <<"a","p","p">>, <<"c","r","e","a","t","e">>,
                  <<"c","u","s","t","o","m">>, <<"u","s","e","r">>,
                  <<"a","u","t","h">>, <<"l","o","g","i","n">>,
                  <<"s","i","g","n","u","p">>, <<"r","e","g","i","s","t","e","r">>}

\* createCustomShortUrl (controller) up to the service call
createCustomShortUrlEntry(url, customUrl, user) ==
    IF validateUrl(url) # NoError THEN validateUrl(url)
    ELSE IF ~Truthy(customUrl)
    THEN BadRequestError(<<"Custom", "URL", "is", "required", "and", "must", "be", "a", "string">>)
    ELSE IF Len(Trim(customUrl)) < 3 \/ Len(Trim(customUrl)) > 50
    THEN BadRequestError(<<"Custom", "URL", "must", "be", "between", "3", "and", "50", "characters", "long">>)
    ELSE IF ~customUrlRegex(Trim(customUrl))
    THEN BadRequestError(<<"Custom", "URL", "can", "only", "contain", "letters,", "numbers,", "hyphens,", "and", "underscores">>)
    ELSE IF ToLowerCase(Trim(customUrl)) \in reservedWords
    THEN BadRequestError(<<"This", "custom", "URL", "is", "reserved", "and", "cannot", "be", "used">>)
    ELSE IF ~Truthy(user.id) THEN Error(<<"User", "authentication", "failed">>)
    ELSE NoError

\* createCustomShortUrlService up to the existence check
createCustomShortUrlServiceEntry(url, customUrl, userId) ==
    IF validateServiceInputs(url, userId) # NoError
    THEN validateServiceInputs(url, userId)
    ELSE IF ~Truthy(customUrl) \/ ~IsString(customUrl) \/ Trim(customUrl) = <<>>
    THEN BadRequestError(<<"Custom", "URL", "is", "required", "and", "must", "be", "a", "non-empty", "string">>)
    ELSE IF ~customUrlRegex(Trim(customUrl))
    THEN BadRequestError(<<"Custom", "URL", "can", "only", "contain", "letters,", "numbers,", "hyphens,", "and", "underscores">>)
    ELSE IF Len(Trim(customUrl)) < 3 \/ Len(Trim(customUrl)) > 50
    THEN BadRequestError(<<"Custom", "URL", "must", "be", "between", "3", "and", "50", "characters", "long">>)
    ELSE NoError

\* the catch block of createCustomShortUrlService
createCustomShortUrlServiceCatch(error) ==
    IF error.cls \in {"BadRequestError", "ConflictError"} THEN error
    ELSE IF error.code = 11000
    THEN ConflictError(<<"The", "custom", "URL", "is", "already", "taken.", "Please", "choose", "a", "different", "one.">>)
    ELSE Error(<<"Failed", "to", "create", "custom", "short", "URL:">> \o error.message)

\* POST /api/shortUrl/custom: auth gate, controller and service validation
PostCustom(authorization, url, customUrl) ==
    /\ LET gate == authMiddleware(authorization)
           rq0 == [NewReq("custom") EXCEPT !.authorization = authorization, !.at = now,
                                           !.url = url, !.customUrl = customUrl]
           rq1 == [rq0 EXCEPT !.user = gate.user, !.handled = TRUE]
           bad == createCustomShortUrlEntry(url, customUrl, gate.user)
           badSvc == createCustomShortUrlServiceEntry(url, Trim(customUrl), gate.user.id)
       IN Receive(
                    IF gate.res # NoRes THEN Done(rq0, gate.res)
                    ELSE IF bad # NoError THEN Done(rq1, NextError(bad))
                    ELSE IF badSvc # NoError
                    THEN Done(rq1, NextError(createCustomShortUrlServiceCatch(badSvc)))
                    ELSE [rq1 EXCEPT !.pc = "findOne"])
    /\ UNCHANGED <<outside, users, links, now, oid, mongoUp>>

\* createCustomShortUrlService: ShortUrl.findOne({short_url}) and the check
createCustomShortUrlService_findOne(rq) ==
    /\ rq \in BagToSet(req)
    /\ rq.kind = "custom" /\ rq.pc = "findOne"
    /\ LET customUrlTrimmed == Trim(Trim(rq.customUrl))
       IN Replace(rq,
              IF ~mongoUp
              THEN Done(rq, NextError(createCustomShortUrlServiceCatch(MongoNetworkError)))
              ELSE IF LinkFindOne(customUrlTrimmed) # Null
              THEN Done(rq, NextError(createCustomShortUrlServiceCatch(
                       ConflictError(<<"The", "custom", "URL", "is", "already", "taken.", "Please", "choose", "a", "different", "one.">>))))
              ELSE [rq EXCEPT !.pc = "save"])
    /\ UNCHANGED <<outside, users, links, now, oid, mongoUp>>

\* createCustomShortUrlService: saveShortUrl and the controller's response
createCustomShortUrlService_save(rq) ==
    /\ rq \in BagToSet(req)
    /\ rq.kind = "custom" /\ rq.pc = "save"
    /\ LET customUrlTrimmed == Trim(Trim(rq.customUrl))
           sv == saveShortUrl(customUrlTrimmed, Trim(rq.url), rq.user.id, oid)
           tried == [rq EXCEPT !.shortUrl = customUrlTrimmed,
                               !.attempts = @ + 1,
                               !.collisions = IF mongoUp /\ ShortUrlTaken(customUrlTrimmed)
                                              THEN @ + 1 ELSE @]
       IN /\ links' = sv.links
          /\ oid' = IF sv.error = NoError THEN oid + 1 ELSE oid
          /\ Replace(rq,
                 IF sv.error = NoError
                 THEN Done(tried, Success(201, <<"Custom", "short", "URL", "created", "successfully">>,
                              CreatedData(rq, customUrlTrimmed)))
                 ELSE Done(tried, NextError(createCustomShortUrlServiceCatch(sv.error))))
    /\ UNCHANGED <<outside, users, now, mongoUp>>

\* GET /api/shortUrl/user: auth gate, then getUserUrls up to the query
GetUser(authorization) ==
    /\ LET gate == authMiddleware(authorization)
           rq0 == [NewReq("list") EXCEPT !.authorization = authorization, !.at = now]
           rq1 == [rq0 EXCEPT !.user = gate.user, !.handled = TRUE]
       IN Receive(
                    IF gate.res # NoRes THEN Done(rq0, gate.res)
                    ELSE IF ~Truthy(gate.user.id)
                    THEN Done(rq1, Failure(401, "", <<"Authentication", "required">>))
                    ELSE IF Trim(gate.user.id) = <<>>
                    THEN Done(rq1, Failure(400, "", <<"Valid", "user", "ID", "is", "required">>))
                    ELSE [rq1 EXCEPT !.pc = "find"])
    /\ UNCHANGED <<outside, users, links, now, oid, mongoUp>>

\* a query without the filter on user
LinkFindAll(user) == links

\* ShortUrl.find({user}): the documents of the user, in natural order
LinkFindByUser(user) == SelectSeq(links, LAMBDA url : url.user = user)

\* .sort({createdAt: -1}): the schema has no createdAt (and no timestamps
\* option), so all sort keys are equal and MongoDB may return the documents
\* in any order
SortByCreatedAt(urls) ==
    {[i \in 1..Len(urls) |-> urls[p[i]]] :
        p \in {q \in [1..Len(urls) -> 1..Len(urls)] :
                  \A a, b \in 1..Len(urls) : a # b => q[a] # q[b]}}

\* the map of getUserUrlsService
TransformUrl(url) ==
    [id |-> ObjectIdToString(url._id),
     shortUrl |-> AppUrl \o url.short_url,
     originalUrl |-> url.full_url,
     customUrl |-> url.short_url,
     clicks |-> url.clicks,
     createdAt |-> now]      \* url.createdAt is undefined: new Date()

\* getUserUrlsService and the response of getUserUrls
getUserUrlsService(rq) ==
    /\ rq \in BagToSet(req)
    /\ rq.kind = "list" /\ rq.pc = "find"
    /\ LET userId == Trim(rq.user.id)
           found == IF IsObjectIdString(userId) /\ mongoUp
                    THEN LinkFindByUser([oid |-> CastObjectId(userId)])
                    ELSE <<>>
       IN \E urls \in SortByCreatedAt(found) :
            Replace(rq,
              IF ~IsObjectIdString(userId)
              THEN Done(rq, Failure(500, "", <<"Failed", "to", "retrieve", "user", "URLs:", "Cast", "to", "ObjectId", "failed">>))
              ELSE IF ~mongoUp
              THEN Done(rq, Failure(500, "",
                        <<"Failed", "to", "retrieve", "user", "URLs:">> \o MongoNetworkError.message))
              ELSE LET transformedUrls == [i \in 1..Len(urls) |-> TransformUrl(urls[i])]
                   IN Done(rq, Success(200, <<"URLs", "retrieved", "successfully">>,
                              [urls |-> transformedUrls, count |-> Len(transformedUrls)])))
    /\ UNCHANGED <<outside, users, links, now, oid, mongoUp>>

(***************************************************************************)
(* Redirect (GET /:id).                                                    *)
(***************************************************************************)
\* redirectFromShortUrl up to the call of getShortUrl
redirectFromShortUrl(id) ==
    /\ LET rq0 == [NewReq("redirect") EXCEPT !.id = id, !.handled = TRUE]
       IN Receive(
                    IF ~Truthy(id)
                    THEN Done(rq0, NextError(BadRequestError(<<"Short", "URL", "ID", "is", "required">>)))
                    ELSE IF Trim(id) = <<>>
                    THEN Done(rq0, NextError(BadRequestError(<<"Invalid", "short", "URL", "ID", "format">>)))
                    ELSE [rq0 EXCEPT !.pc = "lookup"])
    /\ UNCHANGED <<outside, users, links, now, oid, mongoUp>>
\* the same handler answering with res.redirect(301, ...) and no headers
redirectFromShortUrl_getShortUrl301(rq) ==
    /\ rq \in BagToSet(req)
    /\ rq.kind = "redirect" /\ rq.pc = "lookup"
    /\ LET got == getShortUrl(Trim(rq.id))
       IN /\ links' = got.links
          /\ Replace(rq,
                 IF got.error # NoError THEN Done(rq, NextError(got.error))
                 ELSE IF got.url = Null
                 THEN Done(rq, NextError(NotFoundError(<<"Short", "URL", "not", "found">>)))
                 ELSE Done(rq, Success(301, <<>>,
                          [location |-> got.url.full_url,
                           clicks |-> got.url.clicks,
                           cacheControl |-> "", pragma |-> "", expires |-> ""])))
    /\ UNCHANGED <<outside, users, now, oid, mongoUp>>

\* getShortUrl (find and increment in one operation) and the 302 response
redirectFromShortUrl_getShortUrl(rq) ==
    /\ rq \in BagToSet(req)
    /\ rq.kind = "redirect" /\ rq.pc = "lookup"
    /\ LET got == getShortUrl(Trim(rq.id))
       IN /\ links' = got.links
          /\ Replace(rq,
                 IF got.error # NoError THEN Done(rq, NextError(got.error))
                 ELSE IF got.url = Null
                 THEN Done(rq, NextError(NotFoundError(<<"Short", "URL", "not", "found">>)))
                 ELSE Done(rq, Success(302, <<>>,
                          [location |-> got.url.full_url,
                           clicks |-> got.url.clicks,
                           cacheControl |-> "no-cache, no-store, must-revalidate",
                           pragma |-> "no-cache",
                           expires |-> "0"])))
    /\ UNCHANGED <<outside, users, now, oid, mongoUp>>

\* GET /<path> with one path segment, as app.js routes it: the health check
\* is registered before the catch-all "/:id", and Express matches route paths
\* without regard to letter case
appGet(path) ==
    IF ToLowerCase(path) = <<"h","e","a","l","t","h">>
    THEN /\ Receive(Done([NewReq("health") EXCEPT !.id = path],
                         Success(200, <<"Server", "is", "running">>, [timestamp |-> now])))
         /\ UNCHANGED <<outside, users, links, now, oid, mongoUp>>
    ELSE redirectFromShortUrl(path)

(***************************************************************************)
(* Auth service and controllers (auth.service.js, auth.controller.js).     *)
(***************************************************************************)
\* the catch block of registerUser: status, error code and message
registerUserCatch(error) ==
    IF Includes(error.message, <<"already", "exists">>)
    THEN Failure(409, "USER_ALREADY_EXISTS", error.message)
    ELSE IF Includes(error.message, <<"required">>) \/ Includes(error.message, <<"invalid">>)
    THEN Failure(400, "INVALID_INPUT", error.message)
    ELSE IF error.statusCode # 0
    THEN Failure(error.statusCode, "SERVICE_ERROR", error.message)
    ELSE Failure(500, "INTERNAL_SERVER_ERROR", error.message)

\* the catch block of loginUser
loginUserCatch(error) ==
    IF Includes(error.message, <<"Invalid", "email", "or", "password">>)
    THEN Failure(401, "INVALID_CREDENTIALS", error.message)
    ELSE IF Includes(error.message, <<"required">>) \/ Includes(error.message, <<"invalid">>)
    THEN Failure(400, "INVALID_INPUT", error.message)
    ELSE IF error.statusCode # 0
    THEN Failure(error.statusCode, "SERVICE_ERROR", error.message)
    ELSE Failure(500, "INTERNAL_SERVER_ERROR", error.message)

\* the catch block of registerUserService
registerUserServiceCatch(error) ==
    IF error.cls = "BadRequestError" THEN error
    ELSE IF error.code = 11000
    THEN BadRequestError(<<"User", "with", "this", "email", "already", "exists">>)
    ELSE IF error.cls = "ValidationError"
    THEN BadRequestError(<<"Invalid", "user", "data", "provided">>)
    ELSE Error(<<"User", "registration", "failed:">> \o error.message)

\* the catch block of loginUserService
loginUserServiceCatch(error) ==
    IF error.cls = "BadRequestError" THEN error
    ELSE IF error.cls = "CastError" THEN BadRequestError(<<"Invalid", "user", "data">>)
    ELSE Error(<<"User", "login", "failed:">> \o error.message)

\* the input validation of registerUserService
registerUserServiceValidate(name, email, password) ==
    IF ~Truthy(name) \/ Trim(name) = <<>>
    THEN BadRequestError(<<"Name", "is", "required", "and", "must", "be", "a", "non-empty", "string">>)
    ELSE IF ~Truthy(email) \/ Trim(email) = <<>>
    THEN BadRequestError(<<"Email", "is", "required", "and", "must", "be", "a", "non-empty", "string">>)
    ELSE IF password = "" \/ Len(password) < 6
    THEN BadRequestError(<<"Password", "is", "required", "and", "must", "be", "at", "least", "6", "characters", "long">>)
    ELSE IF ~emailRegex(Trim(email))
    THEN BadRequestError(<<"Please", "provide", "a", "valid", "email", "address">>)
    ELSE NoError

\* POST /api/auth/register: validation and the existence check
registerUser(name, email, password) ==
    /\ LET rq == [NewReq("register") EXCEPT !.name = name, !.email = email,
                                            !.password = password, !.handled = TRUE]
           invalid == registerUserServiceValidate(name, email, password)
           found == findUserByEmail(Trim(email))
       IN Receive(
                    IF invalid # NoError
                    THEN Done(rq, registerUserCatch(registerUserServiceCatch(invalid)))
                    ELSE IF found.error # NoError
                    THEN Done(rq, registerUserCatch(registerUserServiceCatch(found.error)))
                    ELSE IF found.user # Null
                    THEN Done(rq, registerUserCatch(registerUserServiceCatch(
                             BadRequestError(<<"User", "with", "this", "email", "already", "exists">>))))
                    ELSE [rq EXCEPT !.pc = "save"])
    /\ UNCHANGED <<outside, users, links, now, oid, mongoUp>>

UserData(user) == [id |-> user._id, name |-> user.name, email |-> user.email]

\* registerUserService from the password hash to newUser.save(), and the
\* response of registerUser
registerUserService_save(rq) ==
    /\ rq \in BagToSet(req)
    /\ rq.kind = "register" /\ rq.pc = "save"
    /\ LET newUser == [_id |-> oid, name |-> Trim(rq.name),
                       email |-> ToLowerCase(Trim(rq.email)),
                       password |-> bcryptHash(rq.password, saltRounds)]
           token == signToken([id |-> newUser._id, email |-> newUser.email,
                               name |-> newUser.name])
           saved == UserSave(newUser)
           tried == [rq EXCEPT !.attempts = @ + 1]
       IN /\ users' = saved.users
          /\ oid' = IF saved.error = NoError THEN oid + 1 ELSE oid
          /\ Replace(rq,
                 IF saved.error = NoError
                 THEN Done(tried, Success(201, <<"User", "registered", "successfully">>,
                              [user |-> UserData(newUser), token |-> token]))
                 ELSE Done(tried, registerUserCatch(registerUserServiceCatch(saved.error))))
    /\ UNCHANGED <<outside, links, now, mongoUp>>

\* the input validation of loginUserService
loginUserServiceValidate(email, password) ==
    IF ~Truthy(email) \/ Trim(email) = <<>>
    THEN BadRequestError(<<"Email", "is", "required", "and", "must", "be", "a", "non-empty", "string">>)
    ELSE IF password = ""
    THEN BadRequestError(<<"Password", "is", "required">>)
    ELSE IF ~emailRegex(Trim(email))
    THEN BadRequestError(<<"Please", "provide", "a", "valid", "email", "address">>)
    ELSE NoError
\* credential checks that tell the unknown email from the wrong password
loginUserServiceCheckTelling(user, password) ==
    IF user = Null
    THEN BadRequestError(<<"User", "not", "found">>)
    ELSE IF ~bcryptCompare(password, user.password)
    THEN BadRequestError(<<"Invalid", "email", "or", "password">>)
    ELSE NoError

\* the two credential checks of loginUserService
loginUserServiceCheck(user, password) ==
    IF user = Null
    THEN BadRequestError(<<"Invalid", "email", "or", "password">>)
    ELSE IF ~bcryptCompare(password, user.password)
    THEN BadRequestError(<<"Invalid", "email", "or", "password">>)
    ELSE NoError

\* loginUserService: the error thrown, or the user and the token
loginUserService(email, password) ==
    LET invalid == loginUserServiceValidate(email, password)
        found == findUserByEmail(ToLowerCase(Trim(email)))
    IN IF invalid # NoError
       THEN [error |-> loginUserServiceCatch(invalid), user |-> Null, token |-> Null,
             found |-> FALSE]
       ELSE IF found.error # NoError
       THEN [error |-> loginUserServiceCatch(found.error), user |-> Null, token |-> Null,
             found |-> FALSE]
       ELSE IF loginUserServiceCheck(found.user, password) # NoError
       THEN [error |-> loginUserServiceCatch(loginUserServiceCheck(found.user, password)),
             user |-> Null, token |-> Null, found |-> found.user # Null]
       ELSE [error |-> NoError, user |-> found.user,
             token |-> signToken([id |-> found.user._id, email |-> found.user.email,
                                  name |-> found.user.name]),
             found |-> TRUE]

\* POST /api/auth/login
loginUser(email, password) ==
    /\ LET result == loginUserService(email, password)
           rq == [NewReq("login") EXCEPT !.email = email, !.password = password,
                                         !.handled = TRUE, !.found = result.found]
       IN Receive(
                    IF result.error # NoError THEN Done(rq, loginUserCatch(result.error))
                    ELSE Done(rq, Success(200, <<"User", "logged", "in", "successfully">>,
                                 [user |-> UserData(result.user), token |-> result.token,
                                  loginTime |-> now])))
    /\ UNCHANGED <<outside, users, links, now, oid, mongoUp>>

(***************************************************************************)
(* The service functions called directly, as test-error-handling.js does.  *)
(* A call is followed like a request: its arguments are kept in the url,   *)
(* customUrl and user.id fields and its outcome in res.                    *)
(***************************************************************************)
\* the error a call throws: its class is kept in the error field
Thrown(e) == Failure(e.statusCode, e.cls, e.message)

\* the value a call returns
Returned(shortUrl) == Success(0, <<>>, [shortUrl |-> shortUrl])

\* null.trim()
TypeError ==
    [cls |-> "TypeError", statusCode |-> 0,
     message |-> <<"Cannot", "read", "properties", "of", "null">>, code |-> 0]

ServiceUser(userId) ==
    [id |-> userId, email |-> NullString, name |-> NullString,
     tokenIat |-> 0, tokenExp |-> 0]

\* createShortUrlServiceWithUserId(url, userId) up to the first await
CallCreateShortUrlServiceWithUserId(url, userId) ==
    /\ LET rq == [NewReq("create") EXCEPT !.url = url, !.user = ServiceUser(userId)]
           invalid == validateServiceInputs(url, userId)
       IN Receive(
                    IF invalid # NoError THEN Done(rq, Thrown(invalid))
                    ELSE IF userId = NullString   \* userId.trim()
                    THEN Done([rq EXCEPT !.retryCount = 1], Thrown(TypeError))
                    ELSE [rq EXCEPT !.pc = "save"])
    /\ UNCHANGED <<outside, users, links, now, oid, mongoUp>>

\* createShortUrlServiceWithoutUserId(url) up to the first await
CallCreateShortUrlServiceWithoutUserId(url) ==
    /\ LET rq == [NewReq("createAnon") EXCEPT !.url = url]
           invalid == validateServiceInputs(url, NullString)
       IN Receive(
                    IF invalid # NoError THEN Done(rq, Thrown(invalid))
                    ELSE [rq EXCEPT !.pc = "save"])
    /\ UNCHANGED <<outside, users, links, now, oid, mongoUp>>

\* one iteration of the retry loop of createShortUrlServiceWithoutUserId
createShortUrlServiceWithoutUserId(rq) ==
    /\ rq \in BagToSet(req)
    /\ rq.kind = "createAnon" /\ rq.pc = "save"
    /\ \E shortUrl \in generateNanoId(7) :
          LET sv == saveShortUrl(shortUrl, Trim(rq.url), NullString, oid)
              collided == mongoUp /\ ShortUrlTaken(shortUrl)
              tried == [rq EXCEPT !.shortUrl = shortUrl,
                                  !.attempts = @ + 1,
                                  !.collisions = IF collided THEN @ + 1 ELSE @]
              retryCount == rq.retryCount + 1
              caught == RetryCatch(sv.error, retryCount)
          IN /\ links' = sv.links
             /\ oid' = IF sv.error = NoError THEN oid + 1 ELSE oid
             /\ Replace(rq,
                    IF sv.error = NoError THEN Done(tried, Returned(shortUrl))
                    ELSE IF caught.continue
                    THEN [tried EXCEPT !.retryCount = retryCount]
                    ELSE Done([tried EXCEPT !.retryCount = retryCount],
                              Thrown(caught.error)))
    /\ UNCHANGED <<outside, users, now, mongoUp>>

\* createCustomShortUrlService(url, customUrl, userId) up to the first await
CallCreateCustomShortUrlService(url, customUrl, userId) ==
    /\ LET rq == [NewReq("custom") EXCEPT !.url = url, !.customUrl = customUrl,
                                          !.user = ServiceUser(userId)]
           invalid == createCustomShortUrlServiceEntry(url, customUrl, userId)
       IN Receive(
                    IF invalid # NoError
                    THEN Done(rq, Thrown(createCustomShortUrlServiceCatch(invalid)))
                    ELSE [rq EXCEPT !.pc = "findOne"])
    /\ UNCHANGED <<outside, users, links, now, oid, mongoUp>>

\* generateNanoId(length), where length has the type given
CallGenerateNanoId(type, length) ==
    /\ LET rq == [NewReq("generateNanoId") EXCEPT !.arg = [type |-> type, value |-> length]]
           invalid == generateNanoIdError(type, length)
       IN IF invalid # NoError
          THEN Receive(Done(rq, Thrown(invalid)))
          ELSE \E id \in generateNanoId(length) : Receive(Done(rq, Returned(id)))
    /\ UNCHANGED <<outside, users, links, now, oid, mongoUp>>

\* errorHandler(err, req, res, next)
CallErrorHandler(err) ==
    /\ Receive(Done([NewReq("errorHandler") EXCEPT !.arg = err], NextError(err)))
    /\ UNCHANGED <<outside, users, links, now, oid, mongoUp>>

(***************************************************************************)
(* The client's HTTP layer (axiosInstance.js, shortUrl.api.js).            *)
(***************************************************************************)
\* what axios hands to the response interceptor: a response with its status,
\* or an error without a response and with a message
Response(status) == [response |-> TRUE, status |-> status, message |-> <<>>]
NoResponse(message) == [response |-> FALSE, status |-> 0, message |-> message]

TimeoutExceeded == NoResponse(<<"timeout", "of", "10000ms", "exceeded">>)
NetworkDown == NoResponse(<<"Network", "Error">>)

\* validateStatus of axios: a status from 200 to 299 resolves the promise
Resolves(raw) == raw.response /\ raw.status >= 200 /\ raw.status < 300

\* the response interceptor's error callback: the enhancedError it rejects with
enhancedError(raw) ==
    [status |-> raw.status,
     isNetworkError |-> ~raw.response,
     isTimeoutError |-> ~raw.response /\ Includes(raw.message, <<"timeout">>),
     isServerError |-> raw.response /\ raw.status >= 500,
     isClientError |-> raw.response /\ raw.status >= 400 /\ raw.status < 500]

\* a wrapper that tries again after every error
isRetryableErrorAny(error) == TRUE

isRetryableError(error) ==
    \/ error.isNetworkError
    \/ error.isTimeoutError
    \/ error.isServerError
    \/ (error.status >= 500 /\ error.status < 600)

\* createRetryWrapper(3, 1000) in createShortUrl
wrapperMaxRetries == 3
wrapperDelay == 1000

RECURSIVE Pow2(_)
Pow2(n) == IF n = 0 THEN 1 ELSE 2 * Pow2(n - 1)

\* one invocation of the wrapper, at the top of its loop
Invocation ==
    [pc |-> "calling",
     attempt |-> 1,       \* the loop variable
     calls |-> 0,         \* calls of requestFn made
     settled |-> <<>>,    \* what each call resolved or rejected with
     waits |-> <<>>,      \* the delays of setTimeout, in milliseconds
     result |-> Null]     \* the response returned or the error thrown

\* the body of the loop once requestFn has settled with raw: return the
\* response, throw the error, or wait before the next attempt
retryWrapperSettle(inv, raw) ==
    LET called == [inv EXCEPT !.settled = Append(@, raw)] IN
    IF Resolves(raw)
    THEN [called EXCEPT !.pc = "returned", !.result = raw]
    ELSE IF inv.attempt = wrapperMaxRetries \/ ~isRetryableError(enhancedError(raw))
    THEN [called EXCEPT !.pc = "thrown", !.result = enhancedError(raw)]
    ELSE [called EXCEPT !.pc = "waiting",
                        !.waits = Append(@, wrapperDelay * Pow2(inv.attempt - 1))]

\* the wrapper is invoked with a request function
retryWrapper ==
    /\ retry' = Append(retry, Invocation)
    /\ UNCHANGED <<users, links, req, now, oid, mongoUp, server, client>>

\* requestFn is called and settles
requestFn(i, raw) ==
    /\ i \in DOMAIN retry /\ retry[i].pc = "calling"
    /\ retry' = [retry EXCEPT ![i] = retryWrapperSettle([@ EXCEPT !.calls = @ + 1], raw)]
    /\ UNCHANGED <<users, links, req, now, oid, mongoUp, server, client>>

\* the timer of the backoff fires: the loop goes on with the next attempt
setTimeoutFires(i) ==
    /\ i \in DOMAIN retry /\ retry[i].pc = "waiting"
    /\ retry' = [retry EXCEPT ![i].pc = "calling", ![i].attempt = @ + 1]
    /\ UNCHANGED <<users, links, req, now, oid, mongoUp, server, client>>

(***************************************************************************)
(* The process (app.js): signals, server.close and the shutdown callback.  *)
(***************************************************************************)
\* process.exitCode while the process runs
Running == 0 - 1

Log(event) == Append(server.events, event)

\* a client connects to the listening server / a connection ends
Connect ==
    /\ server.exit = Running
    /\ server.listening /\ server.connections < MaxConns
    /\ server' = [server EXCEPT !.connections = @ + 1]
    /\ UNCHANGED <<users, links, req, now, oid, mongoUp, client, retry>>

Disconnect ==
    /\ server.exit = Running
    /\ server.connections > 0
    /\ server' = [server EXCEPT !.connections = @ - 1]
    /\ UNCHANGED <<users, links, req, now, oid, mongoUp, client, retry>>

\* SIGTERM or SIGINT: gracefulShutdown calls server.close(callback), which
\* stops the server from accepting and keeps the callback for 'close'
gracefulShutdown(signal) ==
    /\ server.exit = Running
    /\ server.signals < MaxSignals
    /\ server' = [server EXCEPT !.signals = @ + 1,
                                !.listening = FALSE,
                                !.closeListeners = @ + 1,
                                !.events = IF server.listening
                                           THEN Log(signal) \o <<"stopAccepting">>
                                           ELSE Log(signal)]
    /\ UNCHANGED <<users, links, req, now, oid, mongoUp, client, retry>>

\* the server emits 'close' once it has stopped listening and its last
\* connection has ended: every waiting callback starts and runs up to its
\* first await (the import of mongoose)
serverClose ==
    /\ server.exit = Running
    /\ ~server.listening /\ server.connections = 0
    /\ server.closeListeners > 0
    /\ server' = [server EXCEPT !.closed = TRUE,
                                !.closeListeners = 0,
                                !.callbacks = @ \o [i \in 1..server.closeListeners |-> "import"],
                                !.events = Log("httpClosed")]
    /\ UNCHANGED <<users, links, req, now, oid, mongoUp, client, retry>>

\* the callback calls mongoose.connection.close() and awaits it
shutdownCloseDatabase(i) ==
    /\ server.exit = Running
    /\ i \in DOMAIN server.callbacks /\ server.callbacks[i] = "import"
    /\ server' = [server EXCEPT !.callbacks[i] = "closing",
                                !.db = IF @ = "connected" THEN "closing" ELSE @,
                                !.events = Log("closeDatabase")]
    /\ UNCHANGED <<users, links, req, now, oid, mongoUp, client, retry>>

\* an exit code that tells a failed close from a successful one
shutdownExitCodeTelling(closeFailed) == IF closeFailed THEN 1 ELSE 0

\* the argument of process.exit at the end of the callback
shutdownExitCode(closeFailed) == 0

\* the close resolves or rejects (the catch logs the error), and the callback
\* ends with process.exit
shutdownExit(i, closeFailed) ==
    /\ server.exit = Running
    /\ i \in DOMAIN server.callbacks /\ server.callbacks[i] = "closing"
    /\ server' = [server EXCEPT !.callbacks[i] = "done",
                                !.db = IF closeFailed THEN @ ELSE "disconnected",
                                !.exit = shutdownExitCode(closeFailed),
                                !.events = Log(IF closeFailed THEN "closeFailed"
                                               ELSE "databaseClosed")]
    /\ UNCHANGED <<users, links, req, now, oid, mongoUp, client, retry>>

\* process.on('uncaughtException') and process.on('unhandledRejection')
uncaughtException ==
    /\ server.exit = Running
    /\ server' = [server EXCEPT !.exit = 1, !.events = Log("uncaught")]
    /\ UNCHANGED <<users, links, req, now, oid, mongoUp, client, retry>>

(***************************************************************************)
(* The clock.                                                              *)
(***************************************************************************)
\* the days after which the clock is looked at again: the last day of a
\* token's life and the day it ends
TickDays == {expiresIn - 1, expiresIn}

Tick ==
    /\ \E d \in TickDays : now + d <= MaxNow /\ now' = now + d
    /\ UNCHANGED <<outside, users, links, req, oid, mongoUp>>

(***************************************************************************)
(* The environment: the database server stops answering and comes back.    *)
(***************************************************************************)
MongoDown ==
    /\ mongoUp
    /\ mongoUp' = FALSE
    /\ UNCHANGED <<outside, users, links, req, now, oid>>

MongoUp ==
    /\ ~mongoUp
    /\ mongoUp' = TRUE
    /\ UNCHANGED <<outside, users, links, req, now, oid>>

(***************************************************************************)
(* Specifications.                                                         *)
(***************************************************************************)
\* the process after app.listen: listening, connected to the database
ServerStarted ==
    [listening |-> TRUE,     \* the HTTP server accepts connections
     connections |-> 0,      \* open connections
     signals |-> 0,          \* signals received
     closeListeners |-> 0,   \* callbacks waiting for the server's 'close' event
     closed |-> FALSE,       \* 'close' has been emitted
     callbacks |-> <<>>,     \* the position of each running shutdown callback
     db |-> "connected",
     exit |-> Running,
     events |-> <<>>]        \* what the process has done, in order

\* the browser before the page is loaded, with an empty local storage
ClientClosed ==
    [authToken |-> Null, userData |-> Null,   \* local storage
     user |-> Null, isLoading |-> TRUE]       \* state of HomePage

NoInvocation == <<>>

Init ==
    /\ users = <<>>
    /\ links = <<>>
    /\ req = EmptyBag
    /\ now = 0
    /\ oid = 0
    /\ mongoUp = TRUE
    /\ server = ServerStarted
    /\ client = ClientClosed
    /\ retry = NoInvocation

AuthKinds == {"register", "login"}
GateKinds == {"create", "custom", "list"}
LinkKinds == GateKinds \cup {"redirect"}
ListKinds == LinkKinds \cup {"createAnon"}
PureKinds == {"generateNanoId", "errorHandler"}
CountKinds(kinds) ==
    BagCardinality([rq \in {x \in BagToSet(req) : x.kind \in kinds} |-> req[rq]])

Answered(kind) == {rq \in BagToSet(req) : rq.kind = kind /\ rq.pc = "done"}

\* the tokens of IssuedTokens, each in an Authorization header
Bearers == {Bearer(t) : t \in IssuedTokens}

\* POST /api/auth/register and /login, at most cap requests
AuthArrivals(cap) ==
    /\ CountKinds(AuthKinds) < cap
    /\ \/ \E name \in Names, email \in Emails, password \in Passwords :
             registerUser(name, email, password)
       \/ \E email \in Emails, password \in Passwords : loginUser(email, password)

\* requests to the routes behind the auth gate, at most cap of them
GateArrivals(cap, auths, urls, slugs) ==
    /\ CountKinds(GateKinds) < cap
    /\ \/ \E a \in auths, url \in urls : PostCreate(a, url)
       \/ \E a \in auths, url \in urls, customUrl \in slugs : PostCustom(a, url, customUrl)
       \/ \E a \in auths : GetUser(a)

\* the steps of the requests in flight
Steps ==
    \/ \E rq \in BagToSet(req) : registerUserService_save(rq)
    \/ \E rq \in BagToSet(req) : createShortUrlServiceWithUserId(rq)
    \/ \E rq \in BagToSet(req) : createCustomShortUrlService_findOne(rq)
    \/ \E rq \in BagToSet(req) : createCustomShortUrlService_save(rq)
    \/ \E rq \in BagToSet(req) : getUserUrlsService(rq)
    \/ \E rq \in BagToSet(req) : redirectFromShortUrl_getShortUrl(rq)

\* the whole application, from an empty database
Next ==
    \/ AuthArrivals(MaxAuthReqs)
    \/ GateArrivals(MaxLinkReqs, Authorizations, Urls, Slugs)
    \/ (CountKinds({"redirect"}) < MaxLinkReqs /\ \E id \in Paths : redirectFromShortUrl(id))
    \/ Steps
    \/ Tick
    \/ MongoDown
    \/ MongoUp

Spec == Init /\ [][Next]_vars

\* the auth routes, and the gate in front of one protected route; every user
\* registers with the same password and logs in with it or with another
NextAuth ==
    \/ \E name \in Names, email \in Emails :
          CountKinds(AuthKinds) < MaxAuthReqs /\ registerUser(name, email, "secret1")
    \/ \E rq \in BagToSet(req) : registerUserService_save(rq)
    \/ \E email \in Emails, password \in Passwords :
          CountKinds(AuthKinds) < MaxAuthReqs /\ loginUser(email, password)
    \/ \E a \in Bearers : CountKinds(GateKinds) < MaxGatedReqs /\ GetUser(a)
    \/ \E rq \in BagToSet(req) : getUserUrlsService(rq)
    \/ Tick

SpecAuth == Init /\ [][NextAuth]_vars

\* Two users have registered on day 0 and hold their tokens.
SeedUser(_id, email) ==
    [_id |-> _id, name |-> NameAl, email |-> email,
     password |-> bcryptHash("secret1", saltRounds)]

SeedToken(_id, email) ==
    [id |-> ObjectIdToString(_id), email |-> email, name |-> NameAl,
     iat |-> 0, exp |-> expiresIn,
     iss |-> "url-shortener-app", aud |-> "url-shortener-users", key |-> JWT_SECRET]

SeedRegister(_id, email) ==
    Done([NewReq("register") EXCEPT !.name = NameAl, !.email = email,
                                    !.password = "secret1", !.handled = TRUE,
                                    !.attempts = 1],
         Success(201, <<"User", "registered", "successfully">>,
                 [user |-> UserData(SeedUser(_id, email)),
                  token |-> SeedToken(_id, email)]))

InitLinks ==
    /\ now = 0
    /\ users = <<SeedUser(0, EmailLower), SeedUser(1, EmailOther)>>
    /\ links = <<>>
    /\ req = SetToBag({SeedRegister(0, EmailLower), SeedRegister(1, EmailOther)})
    /\ oid = 2
    /\ mongoUp = TRUE
    /\ server = ServerStarted
    /\ client = ClientClosed
    /\ retry = NoInvocation

\* creating and visiting links, by the two users
NextLinks ==
    \/ \E a \in Bearers, url \in ValidUrls :
          CountKinds(LinkKinds) < MaxLinkReqs /\ PostCreate(a, url)
    \/ \E rq \in BagToSet(req) : createShortUrlServiceWithUserId(rq)
    \/ \E a \in Bearers, url \in ValidUrls, customUrl \in FreeSlugs :
          CountKinds(LinkKinds) < MaxLinkReqs /\ PostCustom(a, url, customUrl)
    \/ \E rq \in BagToSet(req) : createCustomShortUrlService_findOne(rq)
    \/ \E rq \in BagToSet(req) : createCustomShortUrlService_save(rq)
    \/ \E id \in Paths :
          CountKinds(LinkKinds) < MaxLinkReqs /\ redirectFromShortUrl(id)
    \/ \E rq \in BagToSet(req) : redirectFromShortUrl_getShortUrl(rq)

SpecLinks == InitLinks /\ [][NextLinks]_vars

\* the gate and the validation in front of the protected routes
NextGate ==
    \/ \E a \in Authorizations, url \in Urls :
          CountKinds(GateKinds) < MaxGateReqs /\ PostCreate(a, url)
    \/ \E rq \in BagToSet(req) : createShortUrlServiceWithUserId(rq)
    \/ \E a \in Authorizations, url \in Urls, customUrl \in Slugs :
          CountKinds(GateKinds) < MaxGateReqs /\ PostCustom(a, url, customUrl)
    \/ \E rq \in BagToSet(req) : createCustomShortUrlService_findOne(rq)
    \/ \E rq \in BagToSet(req) : createCustomShortUrlService_save(rq)
    \/ \E a \in Authorizations : CountKinds(GateKinds) < MaxGateReqs /\ GetUser(a)
    \/ \E rq \in BagToSet(req) : getUserUrlsService(rq)

SpecGate == InitLinks /\ [][NextGate]_vars

\* tokens that jwt.verify refuses: signed with another key (or not a JWT at
\* all), issued by another issuer, issued for another audience
BadSignature(t) == [t EXCEPT !.key = "other-secret"]
WrongIssuer(t) == [t EXCEPT !.iss = "other-app"]
WrongAudience(t) == [t EXCEPT !.aud = "other-users"]

TokenAuths ==
    UNION {{Bearer(t), Bearer(BadSignature(t)), Bearer(WrongIssuer(t)),
            Bearer(WrongAudience(t)), Cookie(t)} : t \in IssuedTokens}

\* the protected routes, reached with every kind of token while the clock runs
NextToken ==
    \/ \E a \in TokenAuths :
          CountKinds(GateKinds) < MaxTokenReqs /\ PostCreate(a, Url1)
    \/ \E rq \in BagToSet(req) : createShortUrlServiceWithUserId(rq)
    \/ \E a \in TokenAuths :
          CountKinds(GateKinds) < MaxTokenReqs /\ PostCustom(a, Url2, SlugMy1)
    \/ \E rq \in BagToSet(req) : createCustomShortUrlService_findOne(rq)
    \/ \E rq \in BagToSet(req) : createCustomShortUrlService_save(rq)
    \/ \E a \in TokenAuths : CountKinds(GateKinds) < MaxTokenReqs /\ GetUser(a)
    \/ \E rq \in BagToSet(req) : getUserUrlsService(rq)
    \/ Tick

SpecToken == InitLinks /\ [][NextToken]_vars

\* arguments of the direct calls
ServiceUrls == {Url1, <<>>, <<" ">>, NullString, NotAString}
UserId123 == <<"u","s","e","r","1","2","3">>
ServiceUserIds == {ObjectIdToString(0), UserId123, <<>>, NullString}
ServiceSlugs ==
    {SlugMy1, <<>>, <<"a","b">>, Str("a", 51), <<"a","!","b">>, NullString,
     SlugApi, <<"a","d","m","i","n">>}

\* the services called directly, on the database of the two users
NextService ==
    \/ \E url \in ServiceUrls, userId \in ServiceUserIds :
          /\ CountKinds({"create", "createAnon", "custom"}) < MaxServiceCalls
          /\ CallCreateShortUrlServiceWithUserId(url, userId)
    \/ \E rq \in BagToSet(req) : createShortUrlServiceWithUserId(rq)
    \/ \E url \in ServiceUrls :
          /\ CountKinds({"create", "createAnon", "custom"}) < MaxServiceCalls
          /\ CallCreateShortUrlServiceWithoutUserId(url)
    \/ \E rq \in BagToSet(req) : createShortUrlServiceWithoutUserId(rq)
    \/ \E customUrl \in ServiceSlugs :
          /\ CountKinds({"create", "createAnon", "custom"}) < MaxServiceCalls
          /\ CallCreateCustomShortUrlService(Url1, customUrl, ObjectIdToString(0))
    \/ \E rq \in BagToSet(req) : createCustomShortUrlService_findOne(rq)
    \/ \E rq \in BagToSet(req) : createCustomShortUrlService_save(rq)

SpecService == InitLinks /\ [][NextService]_vars

\* the two users create links, an ownerless link is created through the
\* service, links are visited and the users list theirs, while the clock runs
NextList ==
    \/ \E a \in Bearers :
          CountKinds(ListKinds) < MaxListReqs /\ PostCreate(a, Url1)
    \/ \E rq \in BagToSet(req) : createShortUrlServiceWithUserId(rq)
    \/ \E a \in Bearers :
          CountKinds(ListKinds) < MaxListReqs /\ PostCustom(a, Url2, SlugMy1)
    \/ \E rq \in BagToSet(req) : createCustomShortUrlService_findOne(rq)
    \/ \E rq \in BagToSet(req) : createCustomShortUrlService_save(rq)
    \/ CountKinds(ListKinds) < MaxListReqs /\ CallCreateShortUrlServiceWithoutUserId(Url2)
    \/ \E rq \in BagToSet(req) : createShortUrlServiceWithoutUserId(rq)
    \/ CountKinds(ListKinds) < MaxListReqs /\ redirectFromShortUrl(IdA)
    \/ \E rq \in BagToSet(req) : redirectFromShortUrl_getShortUrl(rq)
    \/ \E a \in Bearers : CountKinds(ListKinds) < MaxListReqs /\ GetUser(a)
    \/ \E rq \in BagToSet(req) : getUserUrlsService(rq)
    \/ now = 0 /\ Tick

SpecList == InitLinks /\ [][NextList]_vars

\* arguments of generateNanoId: the numbers around the two limits and all
\* between, and the string "7"
Lengths == (0 - 1)..52

\* errors handed to errorHandler
TestMessages == {<<"Test", "message">>, <<>>}
TestErrors ==
    UNION {{BadRequestError(m), UnauthorizedError(m), NotFoundError(m), ConflictError(m),
            AppError(m, 500), AppError(m, 418), Error(m),
            [TypeError EXCEPT !.message = m]} : m \in TestMessages}
    \cup {MongoDuplicateKey("short_url"), MongoNetworkError}

\* the pure functions, called one at a time
NextPure ==
    \/ \E length \in Lengths :
          CountKinds(PureKinds) < MaxPureCalls /\ CallGenerateNanoId("number", length)
    \/ CountKinds(PureKinds) < MaxPureCalls /\ CallGenerateNanoId("string", 7)
    \/ \E err \in TestErrors :
          CountKinds(PureKinds) < MaxPureCalls /\ CallErrorHandler(err)

SpecPure == Init /\ [][NextPure]_vars

\* the first user's token in the Authorization header
Bearer0 == Bearer(SeedToken(0, EmailLower))

\* requests received since the two users registered
Received == BagCardinality(req) - Len(<<EmailLower, EmailOther>>)

\* every endpoint, called with valid inputs while the database server stops
\* answering and comes back
NextFaults ==
    \/ Received < MaxFaultReqs /\ PostCreate(Bearer0, Url1)
    \/ \E rq \in BagToSet(req) : createShortUrlServiceWithUserId(rq)
    \/ Received < MaxFaultReqs /\ PostCustom(Bearer0, Url2, SlugMy1)
    \/ \E rq \in BagToSet(req) : createCustomShortUrlService_findOne(rq)
    \/ \E rq \in BagToSet(req) : createCustomShortUrlService_save(rq)
    \/ Received < MaxFaultReqs /\ GetUser(Bearer0)
    \/ \E rq \in BagToSet(req) : getUserUrlsService(rq)
    \/ Received < MaxFaultReqs /\ redirectFromShortUrl(IdA)
    \/ \E rq \in BagToSet(req) : redirectFromShortUrl_getShortUrl(rq)
    \/ Received < MaxFaultReqs /\ registerUser(NameAl, EmailNew, "secret1")
    \/ \E rq \in BagToSet(req) : registerUserService_save(rq)
    \/ Received < MaxFaultReqs /\ loginUser(EmailLower, "secret1")
    \/ MongoDown
    \/ MongoUp

SpecFaults == InitLinks /\ [][NextFaults]_vars

\* the two create services called directly while the database server stops
\* answering and comes back.  An awaited save always settles (the driver
\* resolves, rejects or times out), so a call in its loop is resumed.
NextRetry ==
    \/ \E userId \in {ObjectIdToString(0), UserId123} :
          /\ CountKinds({"create", "createAnon"}) < MaxRetryCalls
          /\ CallCreateShortUrlServiceWithUserId(Url1, userId)
    \/ \E rq \in BagToSet(req) : createShortUrlServiceWithUserId(rq)
    \/ /\ CountKinds({"create", "createAnon"}) < MaxRetryCalls
       /\ CallCreateShortUrlServiceWithoutUserId(Url1)
    \/ \E rq \in BagToSet(req) : createShortUrlServiceWithoutUserId(rq)
    \/ MongoDown
    \/ MongoUp

SpecRetry ==
    /\ InitLinks /\ [][NextRetry]_vars
    /\ WF_vars(\E rq \in BagToSet(req) : createShortUrlServiceWithUserId(rq))
    /\ WF_vars(\E rq \in BagToSet(req) : createShortUrlServiceWithoutUserId(rq))

\* custom links are created by the first user and their paths are visited
NextRoutes ==
    \/ \E customUrl \in {SlugMy1, SlugHealth} :
          Received < MaxRouteReqs /\ PostCustom(Bearer0, Url1, customUrl)
    \/ \E rq \in BagToSet(req) : createCustomShortUrlService_findOne(rq)
    \/ \E rq \in BagToSet(req) : createCustomShortUrlService_save(rq)
    \/ \E path \in {SlugMy1, SlugHealth} : Received < MaxRouteReqs /\ appGet(path)
    \/ \E rq \in BagToSet(req) : redirectFromShortUrl_getShortUrl(rq)

SpecRoutes == InitLinks /\ [][NextRoutes]_vars

(***************************************************************************)
(* The client against the server: the URL form (shortUrl.api.js) and the   *)
(* session kept in localStorage (HomePage.jsx, UserDashboard.jsx).         *)
(***************************************************************************)
\* JSON.stringify and JSON.parse of the user object kept in localStorage
JSONstringify(value) == [json |-> value]
JSONparse(text) == text.json

\* the request interceptor: the Authorization header of a request
AuthorizationHeader ==
    IF client.authToken # Null THEN Bearer(client.authToken) ELSE NoHeader

\* the first user has logged in and the dashboard is shown
ClientLoggedIn ==
    [authToken |-> SeedToken(0, EmailLower),
     userData |-> JSONstringify(UserData(SeedUser(0, EmailLower))),
     user |-> UserData(SeedUser(0, EmailLower)),
     isLoading |-> FALSE]

\* calls of the request function made by all invocations of the wrapper
RECURSIVE CallsUpTo(_)
CallsUpTo(n) == IF n = 0 THEN 0 ELSE retry[n].calls + CallsUpTo(n - 1)
Posted == CallsUpTo(Len(retry))

\* the request function of createShortUrl: axios sends the POST
axiosPost(i) ==
    /\ i \in DOMAIN retry /\ retry[i].pc = "calling"
    /\ retry' = [retry EXCEPT ![i].pc = "pending", ![i].calls = @ + 1]
    /\ UNCHANGED <<users, links, req, now, oid, mongoUp, server, client>>

\* the server receives a POST that axios has sent
axiosPostArrives(url) ==
    /\ CountKinds({"create"}) < Posted
    /\ PostCreate(AuthorizationHeader, url)

\* the response of the server reaches the request function
axiosPostResponse(i, rq) ==
    /\ i \in DOMAIN retry /\ retry[i].pc = "pending"
    /\ CountKinds({"create"}) = Posted
    /\ rq \in Answered("create")
    /\ retry' = [retry EXCEPT ![i] = retryWrapperSettle(@, Response(rq.res.status))]
    /\ UNCHANGED <<users, links, req, now, oid, mongoUp, server, client>>

\* no response within the timeout of the axios instance
axiosPostTimeout(i) ==
    /\ i \in DOMAIN retry /\ retry[i].pc = "pending"
    /\ retry' = [retry EXCEPT ![i] = retryWrapperSettle(@, TimeoutExceeded)]
    /\ UNCHANGED <<users, links, req, now, oid, mongoUp, server, client>>

InitSubmit ==
    /\ now = 0
    /\ users = <<SeedUser(0, EmailLower), SeedUser(1, EmailOther)>>
    /\ links = <<>>
    /\ req = SetToBag({SeedRegister(0, EmailLower), SeedRegister(1, EmailOther)})
    /\ oid = 2
    /\ mongoUp = TRUE
    /\ server = ServerStarted
    /\ client = ClientLoggedIn
    /\ retry = NoInvocation

\* the logged-in user submits the URL form and the server creates links
NextSubmit ==
    \/ Len(retry) < MaxSubmissions /\ retryWrapper
    \/ \E i \in DOMAIN retry : axiosPost(i)
    \/ axiosPostArrives(Url1)
    \/ \E rq \in BagToSet(req) : createShortUrlServiceWithUserId(rq)
    \/ \E i \in DOMAIN retry, rq \in BagToSet(req) : axiosPostResponse(i, rq)
    \/ \E i \in DOMAIN retry : axiosPostTimeout(i)
    \/ \E i \in DOMAIN retry : setTimeoutFires(i)

SpecSubmit == InitSubmit /\ [][NextSubmit]_vars

\* the page is loaded: the state of HomePage starts anew, localStorage stays
pageLoad ==
    /\ client' = [client EXCEPT !.user = Null, !.isLoading = TRUE]
    /\ UNCHANGED <<users, links, req, now, oid, mongoUp, server, retry>>

\* checkAuth in the effect of HomePage
checkAuth ==
    /\ client.isLoading
    /\ client' = IF client.authToken # Null /\ client.userData # Null
                 THEN [client EXCEPT !.user = JSONparse(client.userData), !.isLoading = FALSE]
                 ELSE [client EXCEPT !.isLoading = FALSE]
    /\ UNCHANGED <<users, links, req, now, oid, mongoUp, server, retry>>

\* the login form is shown and posts the credentials
postLogin(email, password) ==
    /\ ~client.isLoading /\ client.user = Null
    /\ loginUser(email, password)

\* the login succeeded: the form keeps the token and the user, which
\* checkAuth reads back, and handleLogin shows the dashboard
handleLogin(rq) ==
    /\ ~client.isLoading /\ client.user = Null
    /\ rq \in Answered("login") /\ rq.res.status = 200
    /\ client' = [client EXCEPT !.authToken = rq.res.data.token,
                                !.userData = JSONstringify(rq.res.data.user),
                                !.user = rq.res.data.user]
    /\ UNCHANGED <<users, links, req, now, oid, mongoUp, server, retry>>

\* the dashboard is shown and fetches the links of the user
fetchUserUrls ==
    /\ client.user # Null
    /\ GetUser(AuthorizationHeader)

\* the response interceptor on the answer to a request of the dashboard
responseInterceptor(rq) ==
    /\ rq \in Answered("list")
    /\ client' = IF rq.res.status = 401
                 THEN [client EXCEPT !.authToken = Null]
                 ELSE client
    /\ UNCHANGED <<users, links, req, now, oid, mongoUp, server, retry>>

\* handleLogout of UserDashboard, then onLogout of HomePage
handleLogout ==
    /\ client.user # Null
    /\ client' = [client EXCEPT !.authToken = Null, !.userData = Null, !.user = Null]
    /\ UNCHANGED <<users, links, req, now, oid, mongoUp, server, retry>>

\* the first user's browser: loading the page, logging in, the dashboard's
\* requests while the days pass, logging out
NextSession ==
    \/ pageLoad
    \/ checkAuth
    \/ Received < MaxSessionReqs /\ postLogin(EmailLower, "secret1")
    \/ \E rq \in BagToSet(req) : handleLogin(rq)
    \/ Received < MaxSessionReqs /\ fetchUserUrls
    \/ \E rq \in BagToSet(req) : getUserUrlsService(rq)
    \/ \E rq \in BagToSet(req) : responseInterceptor(rq)
    \/ handleLogout
    \/ Tick

SpecSession == InitLinks /\ [][NextSession]_vars

\* what a request function may settle with
Settlements ==
    {Response(status) : status \in {201, 400, 401, 409, 500, 503}}
    \cup {TimeoutExceeded, NetworkDown}

\* the retry wrapper around a request function that settles in any way
NextWrapper ==
    \/ Len(retry) < MaxInvocations /\ retryWrapper
    \/ \E i \in DOMAIN retry, raw \in Settlements : requestFn(i, raw)
    \/ \E i \in DOMAIN retry : setTimeoutFires(i)

SpecWrapper == Init /\ [][NextWrapper]_vars

\* the life of the process from app.listen to its exit
NextShutdown ==
    \/ Connect
    \/ Disconnect
    \/ \E signal \in {"SIGTERM", "SIGINT"} : gracefulShutdown(signal)
    \/ serverClose
    \/ \E i \in DOMAIN server.callbacks : shutdownCloseDatabase(i)
    \/ \E i \in DOMAIN server.callbacks, closeFailed \in BOOLEAN : shutdownExit(i, closeFailed)
    \/ uncaughtException

SpecShutdown == Init /\ [][NextShutdown]_vars

(***************************************************************************)
(* Properties.                                                             *)
(***************************************************************************)
\* the answered requests of one kind
\* how many requests of the bag satisfy the test
CountReqs(Test(_)) ==
    BagCardinality([rq \in {x \in BagToSet(req) : Test(x)} |-> req[rq]])

\* the 302 answers to GET /<code>
Visits(code) ==
    CountReqs(LAMBDA x : /\ x.kind = "redirect" /\ x.pc = "done"
                         /\ x.res.status = 302 /\ Trim(x.id) = code)

\* the records with this short_url
LinksWith(code) == {i \in 1..Len(links) : links[i].short_url = code}

UnableToGenerate ==
    <<"Unable", "to", "generate", "unique", "short", "URL", "after", "multiple", "attempts">>

\* C1: a create call whose candidate was rejected by the unique index after
\* fewer than 3 attempts tries again with a new candidate: it does not end in
\* a failure while fewer than 3 attempts have been made.
C1_RetryAfterCollision ==
    \A rq \in Answered("create") :
        (rq.collisions >= 1 /\ rq.attempts < maxRetries) => rq.res.status = 201

\* C2: a create call all of whose candidates collided ends only after exactly
\* 3 persistence attempts, with 409 and "Unable to generate unique short URL
\* after multiple attempts", and has created no record.
C2_ExhaustedAfterThreeAttempts ==
    \A rq \in Answered("create") :
        (rq.attempts >= 1 /\ rq.collisions = rq.attempts) =>
            /\ rq.attempts = maxRetries
            /\ rq.res.status = 409
            /\ rq.res.message = UnableToGenerate

\* C3: the clicks of a record equal the number of redirect visits answered
\* for its code, whatever the interleaving of the visits.
C3_ClicksCountVisits ==
    \A i \in 1..Len(links) : links[i].clicks = Visits(links[i].short_url)

\* two visits to the same code were in flight together and both are counted
C3_Witness ==
    \E i \in 1..Len(links) :
        /\ links[i].clicks = 2
        /\ Visits(links[i].short_url) = 2

\* C4: no two records of the collection have the same short_url.
C4_UniqueShortUrl ==
    \A i, j \in 1..Len(links) : i # j => links[i].short_url # links[j].short_url

\* a generated code and a custom slug are stored, and the unique index has
\* rejected an insert
C4_Witness ==
    /\ \E rq \in Answered("create") : rq.res.status = 201
    /\ \E rq \in Answered("custom") : rq.res.status = 201
    /\ \E rq \in BagToSet(req) : rq.collisions >= 1

\* the claim as stated: whenever a custom-create request for a slug has been
\* answered, exactly one request for that slug has created the record
C5_ExactlyOneCreates ==
    \A slug \in FreeSlugs :
        LET For(x) == x.kind = "custom" /\ x.pc = "done" /\ Trim(x.customUrl) = slug
            Created(x) == For(x) /\ x.res.status = 201
        IN CountReqs(For) >= 1 => CountReqs(Created) = 1

\* C5: among the custom-create requests for one slug at most one creates the
\* record and every other answered one gets 409 (ConflictError); once one is
\* answered the slug is stored exactly once, and by one of these requests
\* unless a generated code already held it.
C5_CustomSlugOnce ==
    \A slug \in FreeSlugs :
        LET For(x) == x.kind = "custom" /\ x.pc = "done" /\ Trim(x.customUrl) = slug
            Created(x) == For(x) /\ x.res.status = 201
            Generated(x) == x.kind = "create" /\ x.pc = "done"
                            /\ x.res.status = 201 /\ x.shortUrl = slug
        IN /\ CountReqs(Created) <= 1
           /\ \A rq \in BagToSet(req) :
                 (For(rq) /\ ~Created(rq)) =>
                     /\ rq.res.status = 409
                     /\ rq.res.message \in
                          {<<"The", "custom", "URL", "is", "already", "taken.", "Please", "choose", "a", "different", "one.">>,
                           <<"Short", "URL", "already", "exists">>}
           /\ CountReqs(For) >= 1 =>
                 /\ Cardinality(LinksWith(slug)) = 1
                 /\ CountReqs(Created) + CountReqs(Generated) = 1

\* two requests for one slug both passed the existence check; one created the
\* record, the insert of the other was rejected by the unique index
C5_Witness ==
    \E won, lost \in Answered("custom") :
        /\ Trim(won.customUrl) = Trim(lost.customUrl)
        /\ won.res.status = 201
        /\ lost.res.status = 409
        /\ lost.attempts = 1 /\ lost.collisions = 1

\* C6: a successful create of the URL u returns a code of length 7 stored
\* once with full_url u; the record has clicks 0 until it is visited, every
\* visit to the code redirects to u, and after the first visit clicks is 1.
C6_RoundTrip ==
    \A rq \in Answered("create") :
        rq.res.status = 201 =>
            /\ Len(rq.shortUrl) = 7
            /\ rq.res.data.shortUrl = AppUrl \o rq.shortUrl
            /\ Cardinality(LinksWith(rq.shortUrl)) = 1
            /\ \A i \in LinksWith(rq.shortUrl) :
                  /\ links[i].full_url = rq.url
                  /\ Visits(rq.shortUrl) = 0 => links[i].clicks = 0
                  /\ Visits(rq.shortUrl) = 1 => links[i].clicks = 1
            /\ \A visit \in Answered("redirect") :
                  (Trim(visit.id) = rq.shortUrl /\ visit.res.status # 404) =>
                      /\ visit.res.status = 302
                      /\ visit.res.data.location = rq.url
                      /\ (Visits(rq.shortUrl) = 1 => visit.res.data.clicks = 1)

\* a link was created and then visited once
C6_Witness ==
    \E rq \in Answered("create"), visit \in Answered("redirect") :
        /\ rq.res.status = 201
        /\ Trim(visit.id) = rq.shortUrl
        /\ visit.res.status = 302
        /\ visit.res.data.location = rq.url
        /\ \E i \in LinksWith(rq.shortUrl) : links[i].clicks = 1

\* the login request asks for a well-formed email with a non-empty password
WellFormedLogin(rq) == loginUserServiceValidate(rq.email, rq.password) = NoError

\* C7: a refused login for an email nobody registered and a refused login for
\* a registered email with a wrong password get the same status (401), the
\* same error code and the same message.
C7_LoginDoesNotRevealEmail ==
    \A unknown, wrong \in Answered("login") :
        ( /\ WellFormedLogin(unknown) /\ WellFormedLogin(wrong)
          /\ unknown.res.status # 200 /\ wrong.res.status # 200
          /\ ~unknown.found /\ wrong.found ) =>
            /\ unknown.res.status = 401
            /\ wrong.res.status = 401
            /\ unknown.res.error = wrong.res.error
            /\ unknown.res.message = wrong.res.message

\* both refusals have been sent
C7_Witness ==
    \E unknown, wrong \in Answered("login") :
        /\ WellFormedLogin(unknown) /\ WellFormedLogin(wrong)
        /\ ~unknown.found /\ unknown.res.status = 401
        /\ wrong.found /\ wrong.res.status = 401
        /\ unknown.res.error = "INVALID_CREDENTIALS"

normalize(email) == ToLowerCase(Trim(email))

\* C8: no two user records share a normalized email; of the registrations
\* (with valid input) for one normalized email at most one succeeds and every
\* other answered one, earlier, later or concurrent, gets 409.
C8_RegistrationUniquePerEmail ==
    LET Valid(x) == registerUserServiceValidate(x.name, x.email, x.password) = NoError
    IN /\ \A i, j \in 1..Len(users) :
             i # j => normalize(users[i].email) # normalize(users[j].email)
       /\ \A rq \in Answered("register") :
             Valid(rq) =>
                /\ \/ rq.res.status = 201 /\ req[rq] = 1
                   \/ rq.res.status = 409 /\ rq.res.error = "USER_ALREADY_EXISTS"
                /\ \E i \in 1..Len(users) :
                      normalize(users[i].email) = normalize(rq.email)
       /\ \A won, other \in Answered("register") :
             ( /\ won.res.status = 201 /\ other.res.status = 201
               /\ normalize(won.email) = normalize(other.email) ) => won = other

\* two registrations whose emails differ in case and padding both passed the
\* existence check; one created the user, the insert of the other was rejected
C8_Witness ==
    \E won, lost \in Answered("register") :
        /\ won.email # lost.email
        /\ normalize(won.email) = normalize(lost.email)
        /\ won.res.status = 201
        /\ lost.res.status = 409
        /\ lost.attempts = 1

\* the request rq is received, or moves on, in this step
Arrives(rq) ==
    /\ rq \in BagToSet(req')
    /\ CopiesIn(rq, req') > CopiesIn(rq, req)

\* the successful responses that carry a token: those of register and login
Granted ==
    {rq \in BagToSet(req) : /\ rq.kind \in {"register", "login"} /\ rq.pc = "done"
                            /\ rq.res.status \in {200, 201}}

\* C9: once a registration has succeeded, every login with the same email in
\* any letter case and the same password succeeds for that user; and every
\* request that presents a token returned by register or login, less than 7
\* days after it was issued, passes the gate with that user's id and email
\* attached.
C9_LoginAndTokenAfterRegister ==
    [][\A rq \in BagToSet(req') : Arrives(rq) =>
        /\ rq.kind = "login" =>
              \A reg \in Granted :
                  ( /\ reg.kind = "register"
                    /\ normalize(rq.email) = normalize(reg.email)
                    /\ rq.password = reg.password ) =>
                      /\ rq.res.status = 200
                      /\ rq.res.data.user = reg.res.data.user
                      /\ rq.res.data.token.email = reg.res.data.user.email
        /\ (rq.kind = "list" /\ rq.authorization # NoHeader) =>
              \A grant \in Granted :
                  ( /\ rq.authorization.token = grant.res.data.token
                    /\ now < grant.res.data.token.iat + expiresIn ) =>
                      /\ rq.handled
                      /\ rq.user # Null
                      /\ rq.user.id = ObjectIdToString(grant.res.data.user.id)
                      /\ rq.user.email = grant.res.data.user.email
    ]_vars

\* a user registered, logged in with the email in another case, and on the
\* sixth day a request with one of the two tokens passed the gate
C9_Witness ==
    \E reg, login \in Granted, rq \in Answered("list") :
        /\ reg.kind = "register" /\ login.kind = "login"
        /\ login.email # reg.email
        /\ login.res.data.user = reg.res.data.user
        /\ rq.authorization.token \in {reg.res.data.token, login.res.data.token}
        /\ rq.at = rq.authorization.token.iat + expiresIn - 1
        /\ rq.res.status = 200
        /\ rq.user.id = ObjectIdToString(reg.res.data.user.id)
        /\ rq.user.email = reg.res.data.user.email

\* C10: a request to POST /create, POST /custom or GET /user without a token
\* is answered 401 NO_TOKEN_PROVIDED at once, its controller is not entered,
\* and neither collection changes.
C10_NoTokenRejected ==
    [][\A rq \in BagToSet(req') :
          ( /\ Arrives(rq)
            /\ rq.kind \in {"create", "custom", "list"}
            /\ rq.authorization = NoHeader ) =>
              /\ rq.pc = "done"
              /\ rq.res.status = 401
              /\ rq.res.error = "NO_TOKEN_PROVIDED"
              /\ ~rq.handled
              /\ users' = users
              /\ links' = links
    ]_vars

\* a create and a custom-create without a token have been refused
C10_Witness ==
    \E create \in Answered("create"), custom \in Answered("custom") :
        /\ create.authorization = NoHeader /\ custom.authorization = NoHeader
        /\ create.res.error = "NO_TOKEN_PROVIDED"
        /\ custom.res.error = "NO_TOKEN_PROVIDED"
        /\ ~create.handled /\ ~custom.handled
        /\ links = <<>>

\* the token the request presents fails jwt.verify today
FailsVerification(rq) ==
    /\ rq.authorization.scheme = "Bearer"
    /\ LET t == rq.authorization.token
       IN \/ t.key # JWT_SECRET
          \/ rq.at >= t.iat + expiresIn
          \/ t.iss # "url-shortener-app"
          \/ t.aud # "url-shortener-users"

\* C11: a request to a protected route whose token fails verification (bad
\* signature, expired, wrong issuer or audience) is answered 401 with error
\* code INVALID_TOKEN and its controller is not entered.
C11_BadTokenIsInvalidToken ==
    \A rq \in BagToSet(req) :
        (rq.kind \in GateKinds /\ FailsVerification(rq)) =>
            /\ rq.pc = "done"
            /\ rq.res.status = 401
            /\ rq.res.error = "INVALID_TOKEN"
            /\ ~rq.handled

\* C12: a request without Authorization header whose token cookie holds a
\* token returned by login or register, not yet expired, passes the gate and
\* enters its controller.
C12_CookieTokenPasses ==
    \A rq \in BagToSet(req) :
        ( /\ rq.kind \in GateKinds
          /\ rq.authorization.scheme = "Cookie"
          /\ rq.authorization.token \in IssuedTokens
          /\ rq.at < rq.authorization.token.iat + expiresIn ) =>
            /\ rq.handled
            /\ rq.res.status # 401

\* C13: a GET /<code> whose code matches no record is answered 404 and leaves
\* the collection as it was: no record is added and no clicks changes.
C13_UnknownCodeNotFound ==
    [][\A rq \in BagToSet(req') :
          ( /\ Arrives(rq)
            /\ rq.kind = "redirect" /\ rq.pc = "done"
            /\ Truthy(rq.id) /\ Trim(rq.id) # <<>>
            /\ ~\E i \in 1..Len(links) : links[i].short_url = Trim(rq.id) ) =>
              /\ rq.res.status = 404
              /\ rq.res.message = <<"Short", "URL", "not", "found">>
              /\ links' = links
    ]_vars

\* an unknown code was answered 404 while another code is stored
C13_Witness ==
    \E rq \in Answered("redirect") :
        /\ rq.res.status = 404
        /\ links # <<>>
        /\ LinksWith(Trim(rq.id)) = {}

RefusedSlug(customUrl) ==
    \/ ~Truthy(customUrl)
    \/ ~IsString(customUrl)
    \/ Len(customUrl) < 3
    \/ Len(customUrl) > 50
    \/ \E i \in 1..Len(customUrl) :
          customUrl[i] \notin Letters \cup Digits \cup {"-", "_"}
    \/ ToLowerCase(customUrl) \in reservedWords

\* C15: a direct call of createCustomShortUrlService with a slug that is empty,
\* too short, too long, has a forbidden character or is a reserved word in any
\* letter case throws a 400 error and creates no record.
C15_ServiceRejectsBadSlug ==
    \A rq \in Answered("custom") :
        RefusedSlug(rq.customUrl) =>
            /\ rq.res.status = 400
            /\ rq.attempts = 0
            /\ LinksWith(rq.customUrl) = {}

\* C20: a direct call of a create service with an empty, null or non-string
\* URL, or of the with-user variant with an empty user id, throws a
\* BadRequestError at once: the persistence layer is not called, nothing is
\* retried and the collection does not change.
C20_ValidationBeforePersistence ==
    [][\A rq \in BagToSet(req') :
          ( /\ Arrives(rq)
            /\ rq.kind \in {"create", "createAnon"}
            /\ \/ rq.url \in {<<>>, NullString, NotAString}
               \/ rq.kind = "create" /\ rq.user.id = <<>> ) =>
              /\ rq.pc = "done"
              /\ rq.res.error = "BadRequestError"
              /\ rq.res.status = 400
              /\ rq.attempts = 0
              /\ rq.retryCount = 0
              /\ links' = links
    ]_vars

\* a call without URL and a call with an empty user id were refused, and a
\* valid call reached the persistence layer
C20_Witness ==
    \E noUrl \in Answered("createAnon"), noUser, valid \in Answered("create") :
        /\ noUrl.url = NotAString /\ noUrl.res.error = "BadRequestError"
        /\ noUser.url = Url1 /\ noUser.user.id = <<>>
        /\ noUser.res.error = "BadRequestError" /\ noUser.attempts = 0
        /\ valid.attempts = 1 /\ valid.res.status = 201

\* the stored links of the user with this id string
OwnedBy(id) == {i \in 1..Len(links) : links[i].user = [oid |-> CastObjectId(id)]}

\* C16: the list a user gets holds exactly the stored links of that user, each
\* once and with the stored clicks, and count is the length of the list; links
\* of another user and links without owner are not in it.
C16_ListIsOwnersLinks ==
    [][\A rq \in BagToSet(req') :
          ( /\ Arrives(rq)
            /\ rq.kind = "list" /\ rq.pc = "done" /\ rq.handled ) =>
              LET urls == rq.res.data.urls IN
              /\ rq.res.status = 200
              /\ rq.res.data.count = Len(urls)
              /\ Len(urls) = Cardinality(OwnedBy(rq.user.id))
              /\ \A i \in OwnedBy(rq.user.id) :
                    \E k \in 1..Len(urls) :
                        /\ urls[k].id = ObjectIdToString(links[i]._id)
                        /\ urls[k].shortUrl = AppUrl \o links[i].short_url
                        /\ urls[k].originalUrl = links[i].full_url
                        /\ urls[k].clicks = links[i].clicks
    ]_vars

\* a user got the one link they own while the collection also holds a link
\* of the other user or of nobody
C16_Witness ==
    \E rq \in Answered("list") :
        /\ rq.res.status = 200
        /\ rq.res.data.count = 1
        /\ Len(links) = 2
        /\ Cardinality(OwnedBy(rq.user.id)) = 1

\* C17: a list is ordered newest first, and the createdAt reported for a link
\* is the same in every list and is the day the link was created.
C17_NewestFirstWithCreationTime ==
    \A rq \in Answered("list") :
        rq.res.status = 200 =>
            LET urls == rq.res.data.urls IN
            /\ \A i, j \in 1..Len(urls) :
                  i < j => CastObjectId(urls[i].id) > CastObjectId(urls[j].id)
            /\ \A other \in Answered("list") :
                  other.res.status = 200 =>
                      \A i \in 1..Len(urls), j \in 1..Len(other.res.data.urls) :
                          urls[i].id = other.res.data.urls[j].id =>
                              urls[i].createdAt = other.res.data.urls[j].createdAt

\* C18: generateNanoId(length) returns exactly length characters for every
\* integer length from 1 to 50; for 0, a negative length or a non-number it
\* throws the "positive number" error and above 50 the "cannot exceed 50"
\* error; it changes nothing.
C18_GenerateNanoIdLength ==
    [][\A rq \in BagToSet(req') :
          (Arrives(rq) /\ rq.kind = "generateNanoId") =>
              /\ rq.pc = "done"
              /\ (rq.arg.type = "number" /\ rq.arg.value \in 1..50) =>
                    /\ rq.res.error = ""
                    /\ Len(rq.res.data.shortUrl) = rq.arg.value
              /\ (rq.arg.type # "number" \/ rq.arg.value <= 0) =>
                    /\ rq.res.error = "Error"
                    /\ Includes(rq.res.message, <<"positive", "number">>)
              /\ (rq.arg.type = "number" /\ rq.arg.value > 50) =>
                    /\ rq.res.error = "Error"
                    /\ Includes(rq.res.message, <<"cannot", "exceed", "50">>)
              /\ users' = users /\ links' = links
    ]_vars

\* the longest identifier allowed has been generated
C18_Witness ==
    \E rq \in Answered("generateNanoId") :
        /\ rq.arg = [type |-> "number", value |-> 50]
        /\ Len(rq.res.data.shortUrl) = 50

\* the status the handler is said to give to an error
StatusOf(err) ==
    CASE err.cls = "BadRequestError" -> 400
      [] err.cls = "UnauthorizedError" -> 401
      [] err.cls = "NotFoundError" -> 404
      [] err.cls = "ConflictError" -> 409
      [] err.cls = "AppError" -> err.statusCode
      [] OTHER -> 500

\* the claim as stated: the status is the fixed one and the message is always
\* the one the error was constructed with
C19_MessageAlwaysKept ==
    \A rq \in Answered("errorHandler") :
        /\ rq.res.status = StatusOf(rq.arg)
        /\ rq.res.message = rq.arg.message

\* C19: the handler answers BadRequestError 400, UnauthorizedError 401,
\* NotFoundError 404, ConflictError 409, another AppError its statusCode and
\* any other error 500, with the error's message; an error that is not an
\* AppError and has an empty message gets "Internal Server Error".
C19_ErrorHandlerMapping ==
    \A rq \in Answered("errorHandler") :
        /\ rq.res.status = StatusOf(rq.arg)
        /\ rq.res.error = "" /\ rq.res.data = Null
        /\ rq.res.message =
              IF ~IsAppError(rq.arg) /\ rq.arg.message = <<>>
              THEN <<"Internal", "Server", "Error">>
              ELSE rq.arg.message

\* a plain error without message has been handled
C19_Witness ==
    \E rq \in Answered("errorHandler") :
        /\ rq.arg = Error(<<>>)
        /\ rq.res.status = 500
        /\ rq.res.message = <<"Internal", "Server", "Error">>

\* C21: for a valid URL and any non-empty string user ID (such as 'user123'),
\* createShortUrlServiceWithUserId never fails with a BadRequestError: it
\* succeeds or fails with a storage error.
C21_ValidInputsNeverBadRequest ==
    \A rq \in Answered("create") :
        (/\ rq.authorization = NoHeader
         /\ validateUrl(rq.url) = NoError
         /\ IsString(rq.user.id) /\ rq.user.id # <<>>)
            => rq.res.status # BadRequestError(<<>>).statusCode

\* the position of the first occurrence of an event in the log (0 if none)
FirstAt(event) ==
    IF \E i \in DOMAIN server.events : server.events[i] = event
    THEN CHOOSE i \in DOMAIN server.events :
            /\ server.events[i] = event
            /\ \A j \in 1..(i - 1) : server.events[j] # event
    ELSE 0

\* C26: on SIGTERM or SIGINT the HTTP server stops accepting first, the
\* database connection is closed only after the HTTP server has closed, and
\* the shutdown exits only after the close has been attempted, with code 0
\* even when the close fails.
C26_ShutdownOrder ==
    /\ \A i \in DOMAIN server.events :
          /\ server.events[i] = "httpClosed" =>
                FirstAt("stopAccepting") \in 1..(i - 1)
          /\ server.events[i] = "closeDatabase" =>
                FirstAt("httpClosed") \in 1..(i - 1)
          /\ server.events[i] \in {"databaseClosed", "closeFailed"} =>
                /\ FirstAt("closeDatabase") \in 1..(i - 1)
                /\ server.exit = 0
    /\ server.signals > 0 => ~server.listening
    /\ server.closed => server.connections = 0
    /\ server.exit = 0 => FirstAt("closeDatabase") > 0

\* the close of the database connection has failed and the process has exited
C26_Witness ==
    /\ server.exit = 0
    /\ FirstAt("closeFailed") > 0
    /\ server.signals = 1

\* the request carried a token that was valid on the day it was received
ValidToken(rq) ==
    /\ rq.authorization.scheme = "Bearer"
    /\ rq.authorization.token \in IssuedTokens
    /\ rq.at < rq.authorization.token.exp

\* C23: create, custom-create and list are entered only by requests with a
\* valid token; every short link created through the API was created by such
\* a request and its owner is the user id of that request's token, the id of
\* an existing user.
C23_CreatedBehindGate ==
    /\ \A rq \in BagToSet(req) :
          (rq.kind \in GateKinds /\ (rq.handled \/ rq.attempts > 0)) => ValidToken(rq)
    /\ \A i \in 1..Len(links) :
          \E rq \in Answered("create") \cup Answered("custom") :
              /\ rq.res.status = 201
              /\ rq.shortUrl = links[i].short_url
              /\ ValidToken(rq)
              /\ IsObjectIdString(rq.authorization.token.id)
              /\ links[i].user = [oid |-> CastObjectId(rq.authorization.token.id)]
              /\ \E u \in 1..Len(users) : [oid |-> users[u]._id] = links[i].user

\* a link has been created with a valid token and a request with a forged
\* token has been refused
C23_Witness ==
    /\ Len(links) = 1
    /\ \E rq \in BagToSet(req) :
          /\ rq.kind \in GateKinds /\ rq.pc = "done"
          /\ rq.authorization.scheme = "Bearer"
          /\ rq.authorization.token.key # JWT_SECRET
          /\ ~rq.handled

\* a redirect visit to the code is answered in this step
Visited(code) ==
    \E rq \in BagToSet(req') :
        /\ Arrives(rq)
        /\ rq.kind = "redirect" /\ rq.pc = "done"
        /\ rq.res.status = 302 /\ Trim(rq.id) = code

\* C22: the clicks of a short link change only through a redirect visit to
\* its own short_url, by exactly +1 per visit; no operation (create, custom
\* create, list, register, login, redirect to another code) deletes a short
\* link or changes the full_url, short_url or owner of an existing one.
C22_OnlyVisitsChangeClicks ==
    [][/\ Len(links') >= Len(links)
       /\ \A i \in 1..Len(links) :
             /\ links'[i]._id = links[i]._id
             /\ links'[i].full_url = links[i].full_url
             /\ links'[i].short_url = links[i].short_url
             /\ links'[i].user = links[i].user
             /\ links'[i].clicks =
                   IF Visited(links[i].short_url) THEN links[i].clicks + 1
                   ELSE links[i].clicks
    ]_vars

\* a link has been visited, and a request of another kind has been answered
\* after the link was created
C22_Witness ==
    /\ \E i \in 1..Len(links) : links[i].clicks = 1
    /\ \E rq \in BagToSet(req) :
          /\ rq.kind = "redirect" /\ rq.pc = "done" /\ rq.res.status = 302
    /\ \E rq \in Answered("list") \cup Answered("login") : rq.res.status = 200

\* C25: on every endpoint a persistence failure that is not a uniqueness
\* violation is answered with HTTP 500.  Every request of SpecFaults is well
\* formed and carries a valid token, so a request answered while the database
\* server is down is answered because of that failure.
C25_StorageFailureIs500 ==
    [][\A rq \in BagToSet(req') :
          (Arrives(rq) /\ rq.pc = "done" /\ ~mongoUp) => rq.res.status = 500
    ]_vars

\* the calls of the two create services
CreateCalls == {rq \in BagToSet(req) : rq.kind \in {"create", "createAnon"}}

\* a call is in its retry loop
InLoop == \E rq \in CreateCalls : rq.pc = "save"

\* C24: CreateShortLink always terminates: a call makes at most 3 persistence
\* attempts, makes a further attempt only after a uniqueness violation, and a
\* persistence error that is not a uniqueness violation ends the call after
\* that attempt with the error propagated.
C24_CreateTerminates ==
    /\ [](\A rq \in CreateCalls :
            /\ rq.attempts <= maxRetries
            /\ rq.collisions >= rq.attempts - 1
            /\ (rq.attempts > rq.collisions /\ rq.attempts > 0) =>
                  /\ rq.pc = "done"
                  /\ rq.res.status \notin {0, 201} =>
                        \/ Includes(rq.res.message, <<"Database", "operation", "failed:">>)
                        \/ Includes(rq.res.message, <<"Validation", "failed:">>))
    /\ (InLoop ~> ~InLoop)

\* a call has ended after one attempt that failed because the database server
\* was down, with that error
C24_Witness ==
    \E rq \in Answered("createAnon") :
        /\ rq.attempts = 1 /\ rq.collisions = 0
        /\ Includes(rq.res.message, <<"Database", "operation", "failed:">>)

\* C29: every custom slug the custom-create endpoint has accepted is
\* resolvable afterwards: a GET /<slug> reaches the redirect handler and is
\* answered 302 to the stored URL; no accepted slug is shadowed by another
\* route.
C29_AcceptedSlugResolves ==
    [][\A rq \in BagToSet(req') :
          ( /\ Arrives(rq)
            /\ rq.kind \in {"redirect", "health"} /\ rq.pc = "done"
            /\ LinkFindOne(Trim(rq.id)) # Null ) =>
              /\ rq.kind = "redirect"
              /\ rq.res.status = 302
              /\ rq.res.data.location = LinkFindOne(Trim(rq.id)).full_url
    ]_vars

\* the errors after which the wrapper is said to try again: no response
\* (network error, timeout) or a 5xx status
Retryable(raw) == ~raw.response \/ raw.status \in 500..599

\* C27: createRetryWrapper(3, 1000) calls the request function at most 3
\* times; it returns the first successful response without further calls,
\* tries again only after a retryable error, rethrows a non-retryable error
\* at once, rethrows the last error after the 3rd failed call, and waits
\* 1000 ms then 2000 ms between attempts, with no wait after the last
\* failure.
C27_RetryWrapper ==
    \A i \in DOMAIN retry :
        LET inv == retry[i]
            last == inv.settled[Len(inv.settled)]
        IN /\ inv.calls <= 3
           /\ inv.calls = Len(inv.settled)
           /\ \A k \in 1..(Len(inv.settled) - 1) :
                 Retryable(inv.settled[k]) /\ ~(inv.settled[k].status \in 200..299)
           /\ inv.pc = "returned" =>
                 /\ last.status \in 200..299 /\ inv.result = last
                 /\ Len(inv.waits) = inv.calls - 1
           /\ inv.pc = "thrown" =>
                 /\ inv.result.status = last.status
                 /\ inv.result.isNetworkError = ~last.response
                 /\ ~Retryable(last) \/ inv.calls = 3
                 /\ Len(inv.waits) = inv.calls - 1
           /\ (inv.calls > 0 /\ inv.pc \in {"calling", "waiting"}) => Retryable(last)
           /\ inv.pc = "waiting" => Len(inv.waits) = inv.calls /\ inv.calls < 3
           /\ \A k \in DOMAIN inv.waits : inv.waits[k] = IF k = 1 THEN 1000 ELSE 2000

\* the third call has failed with a retryable error after the two waits
C27_Witness ==
    \E i \in DOMAIN retry :
        /\ retry[i].pc = "thrown" /\ retry[i].calls = 3
        /\ retry[i].waits = <<1000, 2000>>
        /\ retry[i].result.isServerError

\* C28: one submission of the client's URL form (createShortUrl with its
\* retry wrapper) creates at most one ShortLink record on the server, even
\* when a response is lost to a timeout.
C28_OneLinkPerSubmission == Len(links) <= Len(retry)

\* C30: the client's stored session is cleared as a unit: localStorage
\* never holds userData without authToken, and the dashboard is never shown
\* (user state non-null) while authToken is absent from localStorage.
C30_SessionClearedAsUnit ==
    /\ client.userData # Null => client.authToken # Null
    /\ client.user # Null => client.authToken # Null

====
